---- MODULE Spec2Model ----
(***************************************************************************)
(* LexSim backend: the extraction pipeline of backend/extractor.py and the *)
(* /api/simulate handler of backend/router.py that consumes it.            *)
(*                                                                         *)
(* A text is a sequence of characters, each character a one-character      *)
(* string.  Positions inside the scanners are 1-based; the values the      *)
(* Python code returns to its callers (brace indices, spans) keep Python's *)
(* 0-based numbering.                                                      *)
(***************************************************************************)
EXTENDS Integers, Sequences, FiniteSets, TLC

VARIABLES
  request_payload,  \* the body of the request that simulate_endpoint serves
  attempts,         \* call_openrouter's counter of calls to the provider
  raw_response,     \* the text the provider answered with
  pc,               \* where the request, or the extraction, stands
  extracted,        \* what extract_simulation_payload returned or raised
  completed,        \* simulate_endpoint's markdown, json_data and warnings
  response,         \* the HTTP response
  call,             \* a function of the backend called on its own, with its arguments
  returned,         \* what that call returned or raised
  delays,           \* what call_openrouter slept after each failed attempt, in half seconds
  request_log,      \* _REQUEST_LOG: for each client IP seen, the times of its admitted requests
  clock,            \* time.time(), in seconds
  limiter_log,      \* what rate_limiter did with each call, in the order the calls ended
  threads           \* the rate_limiter calls in progress in the thread pool

vars == <<request_payload, attempts, raw_response, pc, extracted, completed, response,
          call, returned, delays, request_log, clock, limiter_log, threads>>

limiter_vars == <<request_log, clock, limiter_log, threads>>

service_vars == <<request_payload, attempts, raw_response, pc, extracted, completed,
                  response, call, returned, delays>>

\* the worker threads that run rate_limiter, a dependency that is a plain def
Threads == {1, 2}

IdleThread == [pc |-> "idle", ip |-> "", now |-> 0]

\* router.py line 19: the request log is empty when the module is loaded
LimiterNotCalled ==
  /\ request_log = [ip \in {} |-> <<>>]
  /\ clock = 0
  /\ limiter_log = <<>>
  /\ threads = [th \in Threads |-> IdleThread]

(***************************************************************************)
(* Text primitives (Python str)                                            *)
(***************************************************************************)
Chars(s) == [i \in 1..Len(s) |-> SubSeq(s, i, i)]

Min(S) == CHOOSE k \in S : \A m \in S : k <= m

Max(S) == CHOOSE k \in S : \A m \in S : k >= m

Whitespace == {" ", "\n", "\t", "\r"}

Digits == {"0", "1", "2", "3", "4", "5", "6", "7", "8", "9"}

LowerLetters ==
  {"a", "b", "c", "d", "e", "f", "g", "h", "i", "j", "k", "l", "m",
   "n", "o", "p", "q", "r", "s", "t", "u", "v", "w", "x", "y", "z"}

UpperLetters ==
  {"A", "B", "C", "D", "E", "F", "G", "H", "I", "J", "K", "L", "M",
   "N", "O", "P", "Q", "R", "S", "T", "U", "V", "W", "X", "Y", "Z"}

\* str.isalnum() of one character
isalnum(c) == c \in LowerLetters \cup UpperLetters \cup Digits

\* text.startswith(literal, index), index 1-based
startswith(t, lit, i) ==
  /\ i + Len(lit) - 1 <= Len(t)
  /\ \A k \in 1..Len(lit) : t[i + k - 1] = lit[k]

\* the least k in lo..hi with t[k] outside cs, or hi + 1 when there is none
RECURSIVE FirstNotIn(_, _, _, _)
FirstNotIn(t, cs, lo, hi) ==
  IF lo > hi THEN hi + 1
  ELSE IF lo = hi THEN (IF t[lo] \notin cs THEN lo ELSE hi + 1)
  ELSE LET k == FirstNotIn(t, cs, lo, (lo + hi) \div 2)
       IN  IF k <= (lo + hi) \div 2 THEN k
           ELSE FirstNotIn(t, cs, (lo + hi) \div 2 + 1, hi)

\* the least k in lo..hi with t[k] in cs, or hi + 1 when there is none
RECURSIVE FirstIn(_, _, _, _)
FirstIn(t, cs, lo, hi) ==
  IF lo > hi THEN hi + 1
  ELSE IF lo = hi THEN (IF t[lo] \in cs THEN lo ELSE hi + 1)
  ELSE LET k == FirstIn(t, cs, lo, (lo + hi) \div 2)
       IN  IF k <= (lo + hi) \div 2 THEN k
           ELSE FirstIn(t, cs, (lo + hi) \div 2 + 1, hi)

\* the greatest k in lo..hi with t[k] outside cs, or lo - 1 when there is none
RECURSIVE LastNotIn(_, _, _, _)
LastNotIn(t, cs, lo, hi) ==
  IF lo > hi THEN lo - 1
  ELSE IF lo = hi THEN (IF t[lo] \notin cs THEN lo ELSE lo - 1)
  ELSE LET k == LastNotIn(t, cs, (lo + hi) \div 2 + 1, hi)
       IN  IF k > (lo + hi) \div 2 THEN k
           ELSE LastNotIn(t, cs, lo, (lo + hi) \div 2)

\* first position >= j whose character is not whitespace (Len(t)+1 if none)
FirstNonSpace(t, j) == FirstNotIn(t, Whitespace, j, Len(t))

\* a text handed on as it is
Untrimmed(t) == t

\* str.strip()
strip(t) ==
  LET a == FirstNotIn(t, Whitespace, 1, Len(t))
      b == LastNotIn(t, Whitespace, 1, Len(t))
  IN  IF a > Len(t) THEN <<>> ELSE SubSeq(t, a, b)

(***************************************************************************)
(* extractor.py: the two patterns                                          *)
(***************************************************************************)
\* the backtick character (a string literal cannot hold a lone backtick)
Backtick == SubSeq("`'", 1, 1)

\* three backticks and "json" in small letters at position i
LowercaseFenceTagAt(t, i) ==
  /\ i + 6 <= Len(t)
  /\ t[i] = Backtick /\ t[i + 1] = Backtick /\ t[i + 2] = Backtick
  /\ t[i + 3] = "j" /\ t[i + 4] = "s" /\ t[i + 5] = "o" /\ t[i + 6] = "n"

\* three backticks and "json" at position i, IGNORECASE
FenceTagAt(t, i) ==
  /\ i + 6 <= Len(t)
  /\ t[i] = Backtick /\ t[i + 1] = Backtick /\ t[i + 2] = Backtick
  /\ t[i + 3] \in {"j", "J"} /\ t[i + 4] \in {"s", "S"}
  /\ t[i + 5] \in {"o", "O"} /\ t[i + 6] \in {"n", "N"}

BackticksAt(t, q) ==
  q + 2 <= Len(t) /\ t[q] = Backtick /\ t[q + 1] = Backtick /\ t[q + 2] = Backtick

\* the least q in lo..hi where three backticks begin, or hi + 1
RECURSIVE FirstBackticks(_, _, _)
FirstBackticks(t, lo, hi) ==
  IF lo > hi THEN hi + 1
  ELSE IF lo = hi THEN (IF BackticksAt(t, lo) THEN lo ELSE hi + 1)
  ELSE LET k == FirstBackticks(t, lo, (lo + hi) \div 2)
       IN  IF k <= (lo + hi) \div 2 THEN k
           ELSE FirstBackticks(t, (lo + hi) \div 2 + 1, hi)

NoMatch == [found |-> FALSE, json |-> <<>>, start |-> 0, end |-> 0]

(***************************************************************************)
(* JSON_BLOCK_PATTERN.search(raw_text): the leftmost position where the    *)
(* tag matches and the rest of the pattern can match.  After the tag \s*   *)
(* takes the whole whitespace run (p); the lazy group then grows from p to *)
(* the first position e from which \s* followed by three backticks         *)
(* matches, so the closing backticks are the first ones at or after p (q)  *)
(* and e is where the whitespace run in front of q begins.  start and end  *)
(* are match.span(), 0-based.                                              *)
(***************************************************************************)
JSON_BLOCK_PATTERN_match_at(t, i) ==
  LET p == FirstNonSpace(t, i + 7)
      q == FirstBackticks(t, p, Len(t))
      e == LastNotIn(t, Whitespace, p, q - 1) + 1
  IN  IF ~FenceTagAt(t, i) \/ q > Len(t) THEN NoMatch
      ELSE [found |-> TRUE, json |-> SubSeq(t, p, e - 1),
            start |-> i - 1, end |-> q + 2]

\* the least i in lo..hi where the pattern matches, or hi + 1
RECURSIVE FirstMatch(_, _, _)
FirstMatch(t, lo, hi) ==
  IF lo > hi THEN hi + 1
  ELSE IF lo = hi THEN (IF JSON_BLOCK_PATTERN_match_at(t, lo).found THEN lo ELSE hi + 1)
  ELSE LET k == FirstMatch(t, lo, (lo + hi) \div 2)
       IN  IF k <= (lo + hi) \div 2 THEN k
           ELSE FirstMatch(t, (lo + hi) \div 2 + 1, hi)

MatchFrom(t, i) == IF i > Len(t) THEN NoMatch ELSE JSON_BLOCK_PATTERN_match_at(t, i)

JSON_BLOCK_PATTERN_search(t) == MatchFrom(t, FirstMatch(t, 1, Len(t)))

\* TRAILING_COMMA_PATTERN matches the comma at position i: ",(?=\s*[}\]])"
TRAILING_COMMA_PATTERN_at(t, i) ==
  /\ t[i] = ","
  /\ LET k == FirstNonSpace(t, i + 1)
     IN  k <= Len(t) /\ t[k] \in {"}", "]"}

\* re.sub(TRAILING_COMMA_PATTERN, "", text)
SubTrailingCommaBody(t, s) ==
  [s EXCEPT !.index = @ + 1,
            !.result = IF TRAILING_COMMA_PATTERN_at(t, s.index)
                       THEN @ ELSE Append(@, t[s.index])]

\* re.sub's scan of the text: SubTrailingCommaBody runs at the position s.index points at
\* (the halving only keeps the evaluation depth logarithmic)
RECURSIVE SubTrailingCommaLoop(_, _, _, _)
SubTrailingCommaLoop(t, lo, hi, s) ==
  IF lo > hi THEN s
  ELSE IF lo = hi THEN (IF s.index = lo THEN SubTrailingCommaBody(t, s) ELSE s)
  ELSE LET s1 == SubTrailingCommaLoop(t, lo, (lo + hi) \div 2, s)
       IN  IF s1.index >= lo THEN SubTrailingCommaLoop(t, (lo + hi) \div 2 + 1, hi, s1) ELSE s1

re_sub_TRAILING_COMMA(t) ==
  SubTrailingCommaLoop(t, 1, Len(t), [index |-> 1, result |-> <<>>]).result

(***************************************************************************)
(* extractor.py: _replace_unquoted_literals                                *)
(***************************************************************************)
\* the replacements dict _coerce_python_literals passes (lines 157-159), in
\* insertion order
LiteralReplacements ==
  << [literal |-> Chars("true"),  replacement |-> Chars("True")],
     [literal |-> Chars("false"), replacement |-> Chars("False")],
     [literal |-> Chars("null"),  replacement |-> Chars("None")] >>

\* the guard of lines 57-60 for one literal at position i
LiteralMatches(t, lit, i) ==
  /\ startswith(t, lit, i)
  /\ LET end  == i + Len(lit)
         prev == IF i > 1 THEN t[i - 1] ELSE ""
         nxt  == IF end <= Len(t) THEN t[end] ELSE ""
     IN  /\ ~(isalnum(prev) \/ prev = "_")
         /\ ~(isalnum(nxt) \/ nxt = "_")

ReplaceLiteralsBody(t, s) ==
  LET i    == s.index
      char == t[i]
      hits == {k \in 1..Len(s.replacements) :
                 LiteralMatches(t, s.replacements[k].literal, i)}
  IN  IF s.in_string
      THEN [s EXCEPT
              !.result = Append(@, char),
              !.escape = (~s.escape /\ char = "\\"),
              !.in_string = ~(~s.escape /\ char # "\\" /\ char = s.string_delimiter),
              !.string_delimiter =
                 IF ~s.escape /\ char # "\\" /\ char = s.string_delimiter
                 THEN "" ELSE @,
              !.index = i + 1]
      ELSE IF char \in {"\"", "'"}
      THEN [s EXCEPT !.in_string = TRUE, !.string_delimiter = char,
                     !.result = Append(@, char), !.index = i + 1]
      ELSE IF hits # {}
      THEN LET r == s.replacements[Min(hits)]
           IN  [s EXCEPT !.result = @ \o r.replacement,
                         !.index = i + Len(r.literal)]
      ELSE [s EXCEPT !.result = Append(@, char), !.index = i + 1]

\* `while index < length`: ReplaceLiteralsBody runs at the position s.index points at
\* (the halving only keeps the evaluation depth logarithmic)
RECURSIVE ReplaceLiteralsLoop(_, _, _, _)
ReplaceLiteralsLoop(t, lo, hi, s) ==
  IF lo > hi THEN s
  ELSE IF lo = hi THEN (IF s.index = lo THEN ReplaceLiteralsBody(t, s) ELSE s)
  ELSE LET s1 == ReplaceLiteralsLoop(t, lo, (lo + hi) \div 2, s)
       IN  IF s1.index >= lo THEN ReplaceLiteralsLoop(t, (lo + hi) \div 2 + 1, hi, s1) ELSE s1

_replace_unquoted_literals(text, replacements) ==
  ReplaceLiteralsLoop(text, 1, Len(text),
        [index |-> 1, result |-> <<>>, in_string |-> FALSE,
         escape |-> FALSE, string_delimiter |-> "",
         replacements |-> replacements]).result

(***************************************************************************)
(* extractor.py: _strip_json_comments                                      *)
(***************************************************************************)
\* lines 126-128: index after skipping a line comment whose body starts at j
LineCommentEnd(t, j) ==
  FirstIn(t, {"\n", "\r"}, j, Len(t))

\* lines 131-136: index after skipping a block comment whose body starts at
\* j; without a closing "*/" the loop stops on the last character
\* the least k in lo..hi where "*/" begins, or hi + 1
RECURSIVE FirstStarSlash(_, _, _)
FirstStarSlash(t, lo, hi) ==
  IF lo > hi THEN hi + 1
  ELSE IF lo = hi THEN (IF t[lo] = "*" /\ t[lo + 1] = "/" THEN lo ELSE hi + 1)
  ELSE LET k == FirstStarSlash(t, lo, (lo + hi) \div 2)
       IN  IF k <= (lo + hi) \div 2 THEN k
           ELSE FirstStarSlash(t, (lo + hi) \div 2 + 1, hi)

BlockCommentEnd(t, j) ==
  LET k == FirstStarSlash(t, j, Len(t) - 1)
  IN  IF k <= Len(t) - 1 THEN k + 2 ELSE IF j > Len(t) THEN j ELSE Len(t)

StripCommentsBody(t, s) ==
  LET i    == s.index
      char == t[i]
      next_char == IF i + 1 <= Len(t) THEN t[i + 1] ELSE ""
  IN  IF s.escape
      THEN [s EXCEPT !.result = Append(@, char), !.escape = FALSE,
                     !.index = i + 1]
      ELSE IF char = "\\"
      THEN [s EXCEPT !.escape = TRUE, !.result = Append(@, char),
                     !.index = i + 1]
      ELSE IF char = "\""
      THEN [s EXCEPT !.in_string = ~@, !.result = Append(@, char),
                     !.index = i + 1]
      ELSE IF ~s.in_string /\ char = "/" /\ next_char = "/"
      THEN [s EXCEPT !.index = LineCommentEnd(t, i + 2)]
      ELSE IF ~s.in_string /\ char = "/" /\ next_char = "*"
      THEN [s EXCEPT !.index = BlockCommentEnd(t, i + 2)]
      ELSE [s EXCEPT !.result = Append(@, char), !.index = i + 1]

\* `while index < length`: StripCommentsBody runs at the position s.index points at
\* (the halving only keeps the evaluation depth logarithmic)
RECURSIVE StripCommentsLoop(_, _, _, _)
StripCommentsLoop(t, lo, hi, s) ==
  IF lo > hi THEN s
  ELSE IF lo = hi THEN (IF s.index = lo THEN StripCommentsBody(t, s) ELSE s)
  ELSE LET s1 == StripCommentsLoop(t, lo, (lo + hi) \div 2, s)
       IN  IF s1.index >= lo THEN StripCommentsLoop(t, (lo + hi) \div 2 + 1, hi, s1) ELSE s1

_strip_json_comments(json_text) ==
  StripCommentsLoop(json_text, 1, Len(json_text),
        [index |-> 1, result |-> <<>>, in_string |-> FALSE,
         escape |-> FALSE]).result

(***************************************************************************)
(* extractor.py: _sanitize_json                                            *)
(***************************************************************************)
_sanitize_json(json_text) ==
  re_sub_TRAILING_COMMA(_strip_json_comments(json_text))

(***************************************************************************)
(* extractor.py: _find_matching_brace.  start and the result are 0-based;  *)
(* NoIndex stands for None.                                                *)
(***************************************************************************)
NoIndex == -1

\* one turn of a matcher that does not know about string literals
MatchingBraceBodyNoStrings(t, s) ==
  IF t[s.index] = "{" THEN [s EXCEPT !.depth = @ + 1, !.index = s.index + 1]
  ELSE IF t[s.index] = "}"
  THEN IF s.depth - 1 = 0
       THEN [s EXCEPT !.depth = 0, !.ret = s.index - 1, !.index = Len(t) + 1]
       ELSE [s EXCEPT !.depth = @ - 1, !.index = s.index + 1]
  ELSE [s EXCEPT !.index = s.index + 1]

MatchingBraceBody(t, s) ==
  LET i    == s.index
      char == t[i]
  IN  IF s.escape
      THEN [s EXCEPT !.escape = FALSE, !.index = i + 1]
      ELSE IF char = "\\"
      THEN [s EXCEPT !.escape = TRUE, !.index = i + 1]
      ELSE IF char = "\""
      THEN [s EXCEPT !.in_string = ~@, !.index = i + 1]
      ELSE IF s.in_string
      THEN [s EXCEPT !.index = i + 1]
      ELSE IF char = "{"
      THEN [s EXCEPT !.depth = @ + 1, !.index = i + 1]
      ELSE IF char = "}"
      THEN IF s.depth - 1 = 0
           THEN [s EXCEPT !.depth = 0, !.ret = i - 1, !.index = Len(t) + 1]
           ELSE [s EXCEPT !.depth = @ - 1, !.index = i + 1]
      ELSE [s EXCEPT !.index = i + 1]

\* `for idx in range(start, len(raw_text))`: MatchingBraceBody runs at the position s.index points at
\* (the halving only keeps the evaluation depth logarithmic)
RECURSIVE MatchingBraceLoop(_, _, _, _)
MatchingBraceLoop(t, lo, hi, s) ==
  IF lo > hi THEN s
  ELSE IF lo = hi THEN (IF s.index = lo THEN MatchingBraceBody(t, s) ELSE s)
  ELSE LET s1 == MatchingBraceLoop(t, lo, (lo + hi) \div 2, s)
       IN  IF s1.index >= lo THEN MatchingBraceLoop(t, (lo + hi) \div 2 + 1, hi, s1) ELSE s1

_find_matching_brace(raw_text, start) ==
  MatchingBraceLoop(raw_text, start + 1, Len(raw_text),
        [index |-> start + 1, depth |-> 0, in_string |-> FALSE,
         escape |-> FALSE, ret |-> NoIndex]).ret

(***************************************************************************)
(* JSON values, as json.loads builds them and json.dumps prints them:      *)
(* t is the kind; s the characters of a string; n the value of an integer  *)
(* (1/0 for a bool); a the items of a list; o the items of a dict, in      *)
(* insertion order, as [k |-> key, v |-> value] with k itself a value.     *)
(* "tuple" and "set" only come out of ast.literal_eval, "float" only out   *)
(* of validation and of the fallback builder.                              *)
(***************************************************************************)
Str(s)   == [t |-> "str",  s |-> s,    n |-> 0, a |-> <<>>, o |-> <<>>]

Num(n)   == [t |-> "num",  s |-> <<>>, n |-> n, a |-> <<>>, o |-> <<>>]

Bool(b)  == [t |-> "bool", s |-> <<>>, n |-> IF b THEN 1 ELSE 0, a |-> <<>>, o |-> <<>>]

Null     == [t |-> "null", s |-> <<>>, n |-> 0, a |-> <<>>, o |-> <<>>]

Arr(a)   == [t |-> "arr",  s |-> <<>>, n |-> 0, a |-> a,    o |-> <<>>]

Obj(o)   == [t |-> "obj",  s |-> <<>>, n |-> 0, a |-> <<>>, o |-> o]

Tuple(a) == [t |-> "tuple", s |-> <<>>, n |-> 0, a |-> a,   o |-> <<>>]

Set(a)   == [t |-> "set",  s |-> <<>>, n |-> 0, a |-> a,    o |-> <<>>]

\* a float, held in tenths: Float(4) is 0.4
Float(tenths) == [t |-> "float", s |-> <<>>, n |-> tenths, a |-> <<>>, o |-> <<>>]

\* Python ==/hash of two dict keys: True == 1 and False == 0
KeyEq(k1, k2) ==
  \/ k1 = k2
  \/ k1.t \in {"num", "bool"} /\ k2.t \in {"num", "bool"} /\ k1.n = k2.n

\* d[k] = v on an insertion-ordered dict
DictSet(o, k, v) ==
  IF \E i \in 1..Len(o) : KeyEq(o[i].k, k)
  THEN [i \in 1..Len(o) |-> IF KeyEq(o[i].k, k) THEN [k |-> o[i].k, v |-> v] ELSE o[i]]
  ELSE Append(o, [k |-> k, v |-> v])

HasKey(o, k) == \E i \in 1..Len(o) : KeyEq(o[i].k, k)

DictGet(o, k) == o[CHOOSE i \in 1..Len(o) : KeyEq(o[i].k, k)].v

\* value of a run of decimal digits
DigitValue(c) ==
  CASE c = "0" -> 0 [] c = "1" -> 1 [] c = "2" -> 2 [] c = "3" -> 3
    [] c = "4" -> 4 [] c = "5" -> 5 [] c = "6" -> 6 [] c = "7" -> 7
    [] c = "8" -> 8 [] c = "9" -> 9

RECURSIVE DigitsValue(_)
DigitsValue(ds) ==
  IF ds = <<>> THEN 0
  ELSE 10 * DigitsValue(SubSeq(ds, 1, Len(ds) - 1)) + DigitValue(ds[Len(ds)])

\* first position >= j whose character is not a digit
DigitsEnd(t, j) ==
  FirstNotIn(t, Digits, j, Len(t))

(***************************************************************************)
(* json.loads (extractor.py lines 85 and 220), in two passes: the scanner  *)
(* turns the text into tokens, the decoder builds the value from them.     *)
(* A token is [k |-> kind, s |-> characters, n |-> number].  Fractions,    *)
(* exponents, signs, NaN/Infinity and the \b \f \u escapes are outside the *)
(* texts the model feeds it; meeting one sets `unsupported`.               *)
(***************************************************************************)
Tok(k) == [k |-> k, s |-> <<>>, n |-> 0]

StrTok(s) == [k |-> "str", s |-> s, n |-> 0]

NumTok(n) == [k |-> "num", s |-> <<>>, n |-> n]

JsonPunctuation == {"{", "}", "[", "]", ":", ","}

\* the character a JSON backslash escape stands for ("" when not modelled)
JsonEscape(c) ==
  CASE c = "\"" -> "\"" [] c = "\\" -> "\\" [] c = "/" -> "/"
    [] c = "n" -> "\n" [] c = "r" -> "\r" [] c = "t" -> "\t"
    [] OTHER -> ""

JsonScanBody(t, s) ==
  LET i == s.index
      c == t[i]
      d == IF i + 1 <= Len(t) THEN t[i + 1] ELSE ""
      stop == Len(t) + 1
  IN  IF s.in_string
      THEN IF c = "\""
           THEN [s EXCEPT !.toks = Append(@, StrTok(s.buf)), !.in_string = FALSE,
                          !.buf = <<>>, !.index = i + 1]
           ELSE IF c = "\\"
           THEN IF JsonEscape(d) # ""
                THEN [s EXCEPT !.buf = Append(@, JsonEscape(d)), !.index = i + 2]
                ELSE [s EXCEPT !.err = TRUE, !.index = stop,
                               !.unsupported = (d \in {"b", "f", "u"})]
           ELSE IF c \in {"\n", "\r", "\t"}
           THEN [s EXCEPT !.err = TRUE, !.index = stop]
           ELSE [s EXCEPT !.buf = Append(@, c), !.index = i + 1]
      ELSE IF c \in Whitespace THEN [s EXCEPT !.index = i + 1]
      ELSE IF c \in JsonPunctuation
      THEN [s EXCEPT !.toks = Append(@, Tok(c)), !.index = i + 1]
      ELSE IF c = "\"" THEN [s EXCEPT !.in_string = TRUE, !.index = i + 1]
      ELSE IF c \in Digits
      THEN LET e == IF c = "0" THEN i + 1 ELSE DigitsEnd(t, i)
               f == IF e <= Len(t) THEN t[e] ELSE ""
               g == IF e + 1 <= Len(t) THEN t[e + 1] ELSE ""
           IN  IF (f = "." /\ g \in Digits) \/ (f \in {"e", "E"} /\ g \in Digits \cup {"+", "-"})
               THEN [s EXCEPT !.err = TRUE, !.unsupported = TRUE, !.index = stop]
               ELSE [s EXCEPT !.toks = Append(@, NumTok(DigitsValue(SubSeq(t, i, e - 1)))),
                              !.index = e]
      ELSE IF startswith(t, Chars("true"), i)
      THEN [s EXCEPT !.toks = Append(@, Tok("true")), !.index = i + 4]
      ELSE IF startswith(t, Chars("false"), i)
      THEN [s EXCEPT !.toks = Append(@, Tok("false")), !.index = i + 5]
      ELSE IF startswith(t, Chars("null"), i)
      THEN [s EXCEPT !.toks = Append(@, Tok("null")), !.index = i + 4]
      ELSE [s EXCEPT !.err = TRUE, !.index = stop,
                     !.unsupported = \/ c = "-"
                                     \/ startswith(t, Chars("NaN"), i)
                                     \/ startswith(t, Chars("Infinity"), i)]

\* the scan of the text: JsonScanBody runs at the position s.index points at
\* (the halving only keeps the evaluation depth logarithmic)
RECURSIVE JsonScanLoop(_, _, _, _)
JsonScanLoop(t, lo, hi, s) ==
  IF lo > hi THEN s
  ELSE IF lo = hi THEN (IF s.index = lo THEN JsonScanBody(t, s) ELSE s)
  ELSE LET s1 == JsonScanLoop(t, lo, (lo + hi) \div 2, s)
       IN  IF s1.index >= lo THEN JsonScanLoop(t, (lo + hi) \div 2 + 1, hi, s1) ELSE s1

JsonScan(t) ==
  JsonScanLoop(t, 1, Len(t),
        [index |-> 1, toks |-> <<>>, in_string |-> FALSE, buf |-> <<>>,
         err |-> FALSE, unsupported |-> FALSE])

(***************************************************************************)
(* The decoder.  stack holds the lists and dicts still open, innermost     *)
(* last; expect is what the grammar allows next.                           *)
(***************************************************************************)
Frame(k) == [k |-> k, a |-> <<>>, o |-> <<>>, key |-> <<>>]

\* a value v is complete: it is the result, or goes into the innermost frame
JsonPut(s, stack, v) ==
  IF stack = <<>>
  THEN [s EXCEPT !.stack = <<>>, !.result = v, !.expect = "end"]
  ELSE LET top  == stack[Len(stack)]
           top1 == IF top.k = "arr"
                   THEN [top EXCEPT !.a = Append(@, v)]
                   ELSE [top EXCEPT !.o = DictSet(@, Str(top.key), v)]
       IN  [s EXCEPT !.stack = [stack EXCEPT ![Len(stack)] = top1],
                     !.expect = "comma_or_close"]

JsonClose(s) ==
  LET top  == s.stack[Len(s.stack)]
      rest == SubSeq(s.stack, 1, Len(s.stack) - 1)
  IN  JsonPut(s, rest, IF top.k = "arr" THEN Arr(top.a) ELSE Obj(top.o))

JsonValueToken(s, tok) ==
  CASE tok.k = "str"   -> JsonPut(s, s.stack, Str(tok.s))
    [] tok.k = "num"   -> JsonPut(s, s.stack, Num(tok.n))
    [] tok.k = "true"  -> JsonPut(s, s.stack, Bool(TRUE))
    [] tok.k = "false" -> JsonPut(s, s.stack, Bool(FALSE))
    [] tok.k = "null"  -> JsonPut(s, s.stack, Null)
    [] tok.k = "["     -> [s EXCEPT !.stack = Append(@, Frame("arr")),
                                    !.expect = "value_or_close"]
    [] tok.k = "{"     -> [s EXCEPT !.stack = Append(@, Frame("obj")),
                                    !.expect = "key_or_close"]
    [] OTHER           -> [s EXCEPT !.err = TRUE]

JsonDecodeBody(toks, s0) ==
  LET tok == toks[s0.index]
      s   == [s0 EXCEPT !.index = @ + 1]
      top == s.stack[Len(s.stack)]
  IN  IF s.err THEN s
      ELSE CASE s.expect = "value" -> JsonValueToken(s, tok)
             [] s.expect = "value_or_close" ->
                  IF tok.k = "]" THEN JsonClose(s) ELSE JsonValueToken(s, tok)
             [] s.expect = "key_or_close" ->
                  IF tok.k = "}" THEN JsonClose(s)
                  ELSE IF tok.k = "str"
                  THEN [s EXCEPT !.stack[Len(s.stack)].key = tok.s, !.expect = "colon"]
                  ELSE [s EXCEPT !.err = TRUE]
             [] s.expect = "key" ->
                  IF tok.k = "str"
                  THEN [s EXCEPT !.stack[Len(s.stack)].key = tok.s, !.expect = "colon"]
                  ELSE [s EXCEPT !.err = TRUE]
             [] s.expect = "colon" ->
                  IF tok.k = ":" THEN [s EXCEPT !.expect = "value"]
                  ELSE [s EXCEPT !.err = TRUE]
             [] s.expect = "comma_or_close" ->
                  IF tok.k = "," THEN [s EXCEPT !.expect = IF top.k = "arr" THEN "value" ELSE "key"]
                  ELSE IF (tok.k = "]" /\ top.k = "arr") \/ (tok.k = "}" /\ top.k = "obj")
                  THEN JsonClose(s)
                  ELSE [s EXCEPT !.err = TRUE]
             [] OTHER -> [s EXCEPT !.err = TRUE]

\* the pass over the tokens: JsonDecodeBody runs at the position s.index points at
\* (the halving only keeps the evaluation depth logarithmic)
RECURSIVE JsonDecodeLoop(_, _, _, _)
JsonDecodeLoop(t, lo, hi, s) ==
  IF lo > hi THEN s
  ELSE IF lo = hi THEN (IF s.index = lo THEN JsonDecodeBody(t, s) ELSE s)
  ELSE LET s1 == JsonDecodeLoop(t, lo, (lo + hi) \div 2, s)
       IN  IF s1.index >= lo THEN JsonDecodeLoop(t, (lo + hi) \div 2 + 1, hi, s1) ELSE s1

\* the tokens before a scanning error are decoded first: a grammar error
\* among them is reported before the scanner reaches the bad text
JsonDecoded(sc, d) ==
  LET ok == ~sc.err /\ ~sc.in_string /\ ~d.err /\ d.expect = "end"
  IN  [ok |-> ok, val |-> IF ok THEN d.result ELSE Null,
       unsupported |-> sc.unsupported /\ ~d.err]

JsonDecode(sc) ==
  JsonDecoded(sc, JsonDecodeLoop(sc.toks, 1, Len(sc.toks),
                  [index |-> 1, stack |-> <<>>, expect |-> "value",
                   result |-> Null, err |-> FALSE]))

\* json.loads(text): ok, or JSONDecodeError
json_loads(text) == JsonDecode(JsonScan(text))

(***************************************************************************)
(* ast.literal_eval (extractor.py line 161), in three passes: the          *)
(* tokenizer, the parser that builds the syntax tree out of displays,      *)
(* strings, integers and names, and the conversion of the tree into a      *)
(* value.  The first two fail with SyntaxError; the third fails with       *)
(* ValueError at a node that is not a literal, and with TypeError when it  *)
(* puts an unhashable value into a set or uses one as a dict key.          *)
(* Slices, calls, operators, keywords, string prefixes, non-decimal or     *)
(* fractional numbers and the \a \b \f \v \x \N \u and octal escapes are   *)
(* outside the texts the model feeds it; meeting one sets `unsupported`.   *)
(***************************************************************************)
PyPunctuation == {"{", "}", "[", "]", "(", ")", ",", ":"}

PyOpeners == {"{", "[", "("}

PyKeywords ==
  { Chars(w) : w \in
    {"and", "as", "assert", "async", "await", "break", "class", "continue",
     "def", "del", "elif", "else", "except", "finally", "for", "from",
     "global", "if", "import", "in", "is", "lambda", "nonlocal", "not",
     "or", "pass", "raise", "return", "try", "while", "with", "yield"} }

IdentifierChars == LowerLetters \cup UpperLetters \cup Digits \cup {"_"}

isidentifier(c) == c \in IdentifierChars

\* first position >= j whose character cannot continue a name or a number
WordEnd(t, j) ==
  FirstNotIn(t, IdentifierChars, j, Len(t))

\* first position >= j whose character is not a blank
BlanksEnd(t, j) ==
  FirstNotIn(t, {" ", "\t"}, j, Len(t))

\* the characters a Python backslash escape stands for (<<>> when not modelled)
PyEscape(c) ==
  CASE c = "\"" -> <<"\"">> [] c = "'" -> <<"'">> [] c = "\\" -> <<"\\">>
    [] c = "n" -> <<"\n">> [] c = "r" -> <<"\r">> [] c = "t" -> <<"\t">>
    [] c \in {"a", "b", "f", "v", "x", "N", "u", "U", "\n", "\r", ""} \cup Digits -> <<>>
    [] OTHER -> <<"\\", c>>

\* adjacent string literals are one string
PyAppendStr(toks, buf) ==
  IF toks # <<>> /\ toks[Len(toks)].k = "str"
  THEN [toks EXCEPT ![Len(toks)].s = @ \o buf]
  ELSE Append(toks, StrTok(buf))

PyScanBody(t, s) ==
  LET i == s.index
      c == t[i]
      d == IF i + 1 <= Len(t) THEN t[i + 1] ELSE ""
      stop == Len(t) + 1
      fail == [s EXCEPT !.err = TRUE, !.index = stop]
      giveup == [s EXCEPT !.err = TRUE, !.unsupported = TRUE, !.index = stop]
      q == s.string_delimiter
  IN  IF s.in_string
      THEN IF c = q /\ (~s.triple \/ startswith(t, <<q, q, q>>, i))
           THEN [s EXCEPT !.toks = PyAppendStr(@, s.buf), !.in_string = FALSE,
                          !.buf = <<>>, !.index = IF s.triple THEN i + 3 ELSE i + 1]
           ELSE IF c = "\\"
           THEN IF d = "" THEN fail
                ELSE IF PyEscape(d) = <<>> THEN giveup
                ELSE [s EXCEPT !.buf = @ \o PyEscape(d), !.index = i + 2]
           ELSE IF c \in {"\n", "\r"} /\ ~s.triple THEN fail
           ELSE [s EXCEPT !.buf = Append(@, c), !.index = i + 1]
      ELSE IF c \in {" ", "\t"} THEN [s EXCEPT !.index = i + 1]
      ELSE IF c \in {"\n", "\r"}
      THEN LET k == BlanksEnd(t, i + 1)
           IN  IF s.level > 0 THEN [s EXCEPT !.index = i + 1]
               \* an indented line, or blanks that end the text, after a line break
               ELSE IF k > i + 1 /\ (k > Len(t) \/ t[k] \notin {"\n", "\r"}) THEN fail
               ELSE [s EXCEPT !.index = i + 1,
                              !.toks = IF @ # <<>> /\ @[Len(@)].k # "nl"
                                       THEN Append(@, Tok("nl")) ELSE @]
      ELSE IF c \in PyPunctuation
      THEN [s EXCEPT !.toks = Append(@, Tok(c)), !.index = i + 1,
                     !.level = IF c \in PyOpeners THEN @ + 1
                               ELSE IF c \in {"}", "]", ")"} /\ @ > 0 THEN @ - 1
                               ELSE @]
      ELSE IF c \in {"\"", "'"}
      THEN IF startswith(t, <<c, c, c>>, i)
           THEN [s EXCEPT !.in_string = TRUE, !.triple = TRUE, !.string_delimiter = c,
                          !.index = i + 3]
           ELSE [s EXCEPT !.in_string = TRUE, !.triple = FALSE, !.string_delimiter = c,
                          !.index = i + 1]
      ELSE IF c \in Digits
      THEN LET e == DigitsEnd(t, i)
               f == IF e <= Len(t) THEN t[e] ELSE ""
               ds == SubSeq(t, i, e - 1)
           IN  IF isidentifier(f) \/ f = "." THEN giveup
               ELSE IF c = "0" /\ \E k \in 1..Len(ds) : ds[k] # "0" THEN fail
               ELSE [s EXCEPT !.toks = Append(@, NumTok(DigitsValue(ds))), !.index = e]
      ELSE IF isidentifier(c)
      THEN LET e == WordEnd(t, i)
               f == IF e <= Len(t) THEN t[e] ELSE ""
               w == SubSeq(t, i, e - 1)
           IN  IF f \in {"\"", "'"} \/ w \in PyKeywords THEN giveup
               ELSE [s EXCEPT !.index = e,
                       !.toks = Append(@, IF w = Chars("True") THEN Tok("true")
                                          ELSE IF w = Chars("False") THEN Tok("false")
                                          ELSE IF w = Chars("None") THEN Tok("null")
                                          ELSE Tok("name"))]
      ELSE IF c = Backtick THEN fail
      ELSE giveup

\* the scan of the text: PyScanBody runs at the position s.index points at
\* (the halving only keeps the evaluation depth logarithmic)
RECURSIVE PyScanLoop(_, _, _, _)
PyScanLoop(t, lo, hi, s) ==
  IF lo > hi THEN s
  ELSE IF lo = hi THEN (IF s.index = lo THEN PyScanBody(t, s) ELSE s)
  ELSE LET s1 == PyScanLoop(t, lo, (lo + hi) \div 2, s)
       IN  IF s1.index >= lo THEN PyScanLoop(t, (lo + hi) \div 2 + 1, hi, s1) ELSE s1

PyScan(t) ==
  PyScanLoop(t, 1, Len(t),
        [index |-> 1, toks |-> <<>>, level |-> 0, in_string |-> FALSE,
         triple |-> FALSE, string_delimiter |-> "", buf |-> <<>>, err |-> FALSE,
         unsupported |-> FALSE])

(***************************************************************************)
(* The parser.  A syntax tree has the shape of a value; Name is any name   *)
(* that is not True, False or None, and the items of a dict display are    *)
(* kept as written.  The bottom frame of the stack is the expression       *)
(* itself, which is a tuple when it has a comma outside every bracket.     *)
(***************************************************************************)
Name == [t |-> "name", s |-> <<>>, n |-> 0, a |-> <<>>, o |-> <<>>]

PyFrame(k) ==
  [k |-> k, a |-> <<>>, o |-> <<>>, key |-> Null, haskey |-> FALSE,
   mode |-> "unknown", commas |-> 0]

PyCloser(k) ==
  CASE k \in {"[", "sub"} -> "]" [] k = "(" -> ")" [] k = "{" -> "}" [] OTHER -> "nl"

\* the operand is complete (no subscript follows): it goes into the
\* innermost frame
PyPut(s) ==
  LET n   == Len(s.stack)
      top == s.stack[n]
      v   == s.operand
      s1  == [s EXCEPT !.has_operand = FALSE, !.operand = Null]
  IN  IF top.k # "{" \/ top.mode = "set"
      THEN [s1 EXCEPT !.stack[n].a = Append(@, v), !.expect = "after"]
      ELSE IF top.mode = "unknown"
      THEN [s1 EXCEPT !.stack[n].key = v, !.expect = "after_first"]
      ELSE IF top.haskey
      THEN [s1 EXCEPT !.stack[n].o = Append(@, [k |-> top.key, v |-> v]),
                      !.stack[n].haskey = FALSE, !.expect = "after"]
      ELSE [s1 EXCEPT !.stack[n].key = v, !.stack[n].haskey = TRUE, !.expect = "colon"]

\* the node a closed frame stands for; a subscript is not a literal
PyNode(f) ==
  CASE f.k = "[" -> Arr(f.a)
    [] f.k = "{" -> IF f.mode = "set" THEN Set(f.a) ELSE Obj(f.o)
    [] f.k = "sub" -> Name
    [] OTHER     -> IF f.commas = 0 /\ Len(f.a) = 1 THEN f.a[1] ELSE Tuple(f.a)

PyOperand(s, v) == [s EXCEPT !.has_operand = TRUE, !.operand = v]

PyClose(s) ==
  IF s.stack[Len(s.stack)].k = "top" THEN [s EXCEPT !.expect = "done"]
  ELSE PyOperand([s EXCEPT !.stack = SubSeq(@, 1, Len(@) - 1)],
                 PyNode(s.stack[Len(s.stack)]))

PyValueToken(s, tok) ==
  CASE tok.k = "str"   -> PyOperand(s, Str(tok.s))
    [] tok.k = "num"   -> PyOperand(s, Num(tok.n))
    [] tok.k = "true"  -> PyOperand(s, Bool(TRUE))
    [] tok.k = "false" -> PyOperand(s, Bool(FALSE))
    [] tok.k = "null"  -> PyOperand(s, Null)
    [] tok.k = "name"  -> PyOperand(s, Name)
    [] tok.k \in PyOpeners ->
         [s EXCEPT !.stack = Append(@, PyFrame(tok.k)), !.expect = "value_or_close"]
    [] tok.k = ":" /\ s.stack[Len(s.stack)].k = "sub" ->
         [s EXCEPT !.err = TRUE, !.unsupported = TRUE]
    [] OTHER -> [s EXCEPT !.err = TRUE]

\* the token tok meets the state s, whose finished operand is already put
PyParseToken(s, tok, subscript) ==
  LET n   == Len(s.stack)
      top == s.stack[n]
      giveup == [s EXCEPT !.err = TRUE, !.unsupported = TRUE]
      fail   == [s EXCEPT !.err = TRUE]
  IN  IF s.err THEN s
      ELSE IF subscript
      THEN [s EXCEPT !.has_operand = FALSE, !.operand = Null,
                     !.stack = Append(@, PyFrame("sub")), !.expect = "value"]
      ELSE IF s.has_operand THEN giveup
      ELSE CASE s.expect = "value" -> PyValueToken(s, tok)
             [] s.expect = "value_or_close" ->
                  IF tok.k = PyCloser(top.k) THEN PyClose(s) ELSE PyValueToken(s, tok)
             [] s.expect = "after" ->
                  IF tok.k = ","
                  THEN [s EXCEPT !.stack[n].commas = @ + 1, !.expect = "value_or_close"]
                  ELSE IF tok.k = PyCloser(top.k) THEN PyClose(s)
                  ELSE IF tok.k = ":" /\ top.k = "sub" THEN giveup
                  ELSE fail
             [] s.expect = "after_first" ->
                  IF tok.k = ":"
                  THEN [s EXCEPT !.stack[n].mode = "dict", !.stack[n].haskey = TRUE,
                                 !.expect = "value"]
                  ELSE IF tok.k = ","
                  THEN [s EXCEPT !.stack[n].mode = "set", !.stack[n].a = <<top.key>>,
                                 !.stack[n].commas = 1, !.expect = "value_or_close"]
                  ELSE IF tok.k = "}"
                  THEN PyClose([s EXCEPT !.stack[n].mode = "set", !.stack[n].a = <<top.key>>])
                  ELSE fail
             [] s.expect = "colon" ->
                  IF tok.k = ":" THEN [s EXCEPT !.expect = "value"] ELSE fail
             \* "done": only line breaks may follow the expression
             [] OTHER -> IF tok.k = "nl" THEN s ELSE fail

\* what follows an operand is its subscript, or the operand is complete
PyParseBody(toks, s0) ==
  LET tok == toks[s0.index]
      s1  == [s0 EXCEPT !.index = @ + 1]
  IN  PyParseToken(IF s1.has_operand /\ tok.k \notin {"[", "("} THEN PyPut(s1) ELSE s1,
                   tok, s1.has_operand /\ tok.k = "[")

\* the pass over the tokens: PyParseBody runs at the position s.index points at
\* (the halving only keeps the evaluation depth logarithmic)
RECURSIVE PyParseLoop(_, _, _, _)
PyParseLoop(t, lo, hi, s) ==
  IF lo > hi THEN s
  ELSE IF lo = hi THEN (IF s.index = lo THEN PyParseBody(t, s) ELSE s)
  ELSE LET s1 == PyParseLoop(t, lo, (lo + hi) \div 2, s)
       IN  IF s1.index >= lo THEN PyParseLoop(t, (lo + hi) \div 2 + 1, hi, s1) ELSE s1

\* the tree the parser state p stands for once the tokens of sc are read
PyParsed(sc, p) ==
  LET top == p.stack[1]
      ok == /\ ~sc.err /\ ~sc.in_string /\ ~p.err
            /\ Len(p.stack) = 1
            /\ \/ p.expect \in {"after", "done"}
               \/ p.expect = "value_or_close" /\ top.commas > 0
  IN  [ok |-> ok, node |-> IF ok THEN PyNode(top) ELSE Null,
       unsupported |-> (sc.unsupported /\ ~p.err) \/ p.unsupported]

\* the last operand is complete when the tokens end
PyFinish(p0) == IF p0.has_operand /\ ~p0.err THEN PyPut(p0) ELSE p0

PyParseTokens(sc) ==
  PyParsed(sc, PyFinish(PyParseLoop(sc.toks, 1, Len(sc.toks),
                  [index |-> 1, stack |-> <<PyFrame("top")>>, expect |-> "value",
                   has_operand |-> FALSE, operand |-> Null,
                   err |-> FALSE, unsupported |-> FALSE])))

\* ast.parse(text, mode="eval"): the tree, or SyntaxError
PyParse(text) == PyParseTokens(PyScan(text))

(***************************************************************************)
(* The conversion (ast.literal_eval's _convert): children left to right,   *)
(* each item of a set hashed as soon as it is converted, each key of a     *)
(* dict hashed once its value is converted.                                *)
(***************************************************************************)
RECURSIVE Hashable(_)
Hashable(v) ==
  \/ v.t \in {"str", "num", "bool", "null"}
  \/ v.t = "tuple" /\ \A i \in 1..Len(v.a) : Hashable(v.a[i])

RECURSIVE DictFromItems(_)
DictFromItems(items) ==
  IF items = <<>> THEN <<>>
  ELSE DictSet(DictFromItems(SubSeq(items, 1, Len(items) - 1)),
               items[Len(items)].k, items[Len(items)].v)

Converted(v) == [error |-> "", val |-> v]

Failed(e) == [error |-> e, val |-> Null]

RECURSIVE PyConvert(_)
PyConvert(node) ==
  CASE node.t = "name" -> Failed("ValueError")
    [] node.t \in {"arr", "tuple", "set"} ->
         LET r == [i \in 1..Len(node.a) |-> PyConvert(node.a[i])]
             e == [i \in 1..Len(node.a) |->
                     IF r[i].error # "" THEN r[i].error
                     ELSE IF node.t = "set" /\ ~Hashable(r[i].val) THEN "TypeError"
                     ELSE ""]
             bad == {i \in 1..Len(node.a) : e[i] # ""}
         IN  IF bad # {} THEN Failed(e[Min(bad)])
             ELSE Converted([node EXCEPT !.a = [i \in 1..Len(node.a) |-> r[i].val]])
    [] node.t = "obj" ->
         LET rk == [i \in 1..Len(node.o) |-> PyConvert(node.o[i].k)]
             rv == [i \in 1..Len(node.o) |-> PyConvert(node.o[i].v)]
             e == [i \in 1..Len(node.o) |->
                     IF rk[i].error # "" THEN rk[i].error
                     ELSE IF rv[i].error # "" THEN rv[i].error
                     ELSE IF ~Hashable(rk[i].val) THEN "TypeError"
                     ELSE ""]
             bad == {i \in 1..Len(node.o) : e[i] # ""}
         IN  IF bad # {} THEN Failed(e[Min(bad)])
             ELSE Converted(Obj(DictFromItems(
                    [i \in 1..Len(node.o) |-> [k |-> rk[i].val, v |-> rv[i].val]])))
    [] OTHER -> Converted(node)

PyEvaluated(c) == [error |-> c.error, val |-> c.val, unsupported |-> FALSE]

PyEval(p) ==
  IF ~p.ok THEN [error |-> "SyntaxError", val |-> Null, unsupported |-> p.unsupported]
  ELSE PyEvaluated(PyConvert(p.node))

\* ast.literal_eval(text): error is "" (val is the value), "SyntaxError",
\* "ValueError" or "TypeError"
ast_literal_eval(text) == PyEval(PyParse(text))

(***************************************************************************)
(* json.dumps (extractor.py line 165) with its default separators          *)
(***************************************************************************)
DigitChar(d) == SubSeq("0123456789", d + 1, d + 1)

RECURSIVE IntToChars(_)
IntToChars(n) ==
  IF n < 10 THEN <<DigitChar(n)>>
  ELSE Append(IntToChars(n \div 10), DigitChar(n % 10))

RECURSIVE Join(_, _)
Join(parts, sep) ==
  IF parts = <<>> THEN <<>>
  ELSE IF Len(parts) = 1 THEN parts[1]
  ELSE Join(SubSeq(parts, 1, Len(parts) - 1), sep) \o sep \o parts[Len(parts)]

JsonEscapeChar(c) ==
  CASE c = "\"" -> <<"\\", "\"">> [] c = "\\" -> <<"\\", "\\">>
    [] c = "\n" -> <<"\\", "n">> [] c = "\r" -> <<"\\", "r">>
    [] c = "\t" -> <<"\\", "t">> [] OTHER -> <<c>>

JsonQuote(chars) ==
  <<"\"">> \o Join([i \in 1..Len(chars) |-> JsonEscapeChar(chars[i])], <<>>) \o <<"\"">>

\* the text a dict key is written as
JsonKeyChars(k) ==
  CASE k.t = "str"  -> k.s
    [] k.t = "num"  -> IntToChars(k.n)
    [] k.t = "bool" -> IF k.n = 1 THEN Chars("true") ELSE Chars("false")
    [] OTHER        -> Chars("null")

\* json.dumps raises TypeError on a set and on a key that is a tuple
RECURSIVE Serializable(_)
Serializable(v) ==
  CASE v.t \in {"arr", "tuple"} -> \A i \in 1..Len(v.a) : Serializable(v.a[i])
    [] v.t = "obj" -> \A i \in 1..Len(v.o) :
                         /\ v.o[i].k.t \in {"str", "num", "bool", "null"}
                         /\ Serializable(v.o[i].v)
    [] v.t = "set" -> FALSE
    [] OTHER -> TRUE

RECURSIVE JsonEncode(_)
JsonEncode(v) ==
  CASE v.t = "str"  -> JsonQuote(v.s)
    [] v.t = "num"  -> IntToChars(v.n)
    [] v.t = "bool" -> IF v.n = 1 THEN Chars("true") ELSE Chars("false")
    [] v.t = "null" -> Chars("null")
    [] v.t \in {"arr", "tuple"} ->
         <<"[">> \o Join([i \in 1..Len(v.a) |-> JsonEncode(v.a[i])], <<",", " ">>) \o <<"]">>
    [] OTHER ->
         <<"{">> \o Join([i \in 1..Len(v.o) |->
                            JsonQuote(JsonKeyChars(v.o[i].k)) \o <<":", " ">>
                              \o JsonEncode(v.o[i].v)],
                         <<",", " ">>) \o <<"}">>

json_dumps(v) ==
  IF Serializable(v) THEN [error |-> "", text |-> JsonEncode(v)]
  ELSE [error |-> "TypeError", text |-> <<>>]

(***************************************************************************)
(* extractor.py: _coerce_python_literals.  raised is the exception that    *)
(* leaves the function ("" when it returns).                               *)
(***************************************************************************)
\* lines 164-167: the dump, or the text as it came when it cannot be dumped
CoerceDumped(json_text, dumped) ==
  IF dumped.error \in {"TypeError", "ValueError"}
  THEN [raised |-> "", text |-> json_text, unsupported |-> FALSE]
  ELSE [raised |-> "", text |-> dumped.text, unsupported |-> FALSE]

\* lines 160-163: only ValueError and SyntaxError are caught
CoerceEvaluated(json_text, python_obj) ==
  IF python_obj.error \in {"ValueError", "SyntaxError"}
  THEN [raised |-> "", text |-> json_text, unsupported |-> python_obj.unsupported]
  ELSE IF python_obj.error # ""
  THEN [raised |-> python_obj.error, text |-> <<>>, unsupported |-> FALSE]
  ELSE CoerceDumped(json_text, json_dumps(python_obj.val))

\* a coercion that evaluates the text as it came, comments and all
CoerceUnsanitized(json_text) ==
  CoerceEvaluated(json_text,
    ast_literal_eval(_replace_unquoted_literals(json_text, LiteralReplacements)))

_coerce_python_literals(json_text) ==
  CoerceEvaluated(json_text,
    ast_literal_eval(_replace_unquoted_literals(_sanitize_json(json_text),
                                                LiteralReplacements)))

(***************************************************************************)
(* schemas.py: the record schema.  A type is <<"str">>, <<"int">>,         *)
(* <<"float">>, <<"literal", allowed strings>>, <<"list", item type>>,     *)
(* <<"dict", key type, value type>> or <<"model", class name>>; a class is *)
(* its fields in declaration order, each <<name, type>>.                   *)
(***************************************************************************)
TStr == <<"str">>

TInt == <<"int">>

TFloat == <<"float">>

TLiteral(allowed) == <<"literal", allowed>>

TList(item) == <<"list", item>>

TDict(key, value) == <<"dict", key, value>>

TModel(class) == <<"model", class>>

JSONMeta ==
  << <<"titulo", TStr>>, <<"jurisdiccion", TStr>>, <<"materia", TStr>>,
     <<"nivel", TLiteral({"basico", "intermedio", "avanzado"})>>,
     <<"objetivo_didactico", TStr>>, <<"duracion_minutos", TInt>> >>

JSONPersonaje ==
  << <<"nombre", TStr>>,
     <<"rol", TLiteral({"juez", "fiscal", "defensa", "demandante", "demandado",
                        "testigo", "perito", "policia", "otro"})>>,
     <<"bio", TStr>>, <<"objetivos", TList(TStr)>>, <<"sesgos", TList(TStr)>> >>

JSONCronologia == << <<"t", TStr>>, <<"evento", TStr>> >>

JSONPlanteamiento ==
  << <<"tipo", TLiteral({"penal", "civil", "laboral", "administrativo", "otro"})>>,
     <<"cargos_o_pretensiones", TList(TStr)>>, <<"estandar_probatorio", TStr>>,
     <<"notas", TStr>> >>

JSONPruebaDocumental ==
  << <<"id", TStr>>, <<"descripcion", TStr>>, <<"origen", TStr>>,
     <<"autenticidad_custodia", TStr>>, <<"posibles_objeciones", TList(TStr)>> >>

JSONPruebaTestimonial ==
  << <<"id", TStr>>, <<"testigo", TStr>>, <<"alcance", TStr>>,
     <<"riesgos_credibilidad", TList(TStr)>>,
     <<"contrapreguntas_sugeridas", TList(TStr)>> >>

JSONPruebaPericial ==
  << <<"id", TStr>>, <<"area", TStr>>, <<"metodo", TStr>>, <<"limites", TStr>>,
     <<"validez", TStr>> >>

JSONPruebaDigitalFisica ==
  << <<"id", TStr>>, <<"tipo", TLiteral({"digital", "fisica"})>>,
     <<"descripcion", TStr>>, <<"hash", TStr>>, <<"metadatos", TDict(TStr, TStr)>>,
     <<"cadena_custodia", TStr>> >>

JSONPruebas ==
  << <<"documental", TList(TModel("JSONPruebaDocumental"))>>,
     <<"testimonial", TList(TModel("JSONPruebaTestimonial"))>>,
     <<"pericial", TList(TModel("JSONPruebaPericial"))>>,
     <<"digital_fisica", TList(TModel("JSONPruebaDigitalFisica"))>> >>

JSONInterrogatorio ==
  << <<"tipo", TLiteral({"directo", "contrainterrogatorio"})>>, <<"a_quien", TStr>>,
     <<"preguntas", TList(TStr)>> >>

JSONObjecion == << <<"objecion", TStr>>, <<"fundamento", TStr>> >>

JSONApertura == << <<"parte_1", TStr>>, <<"parte_2", TStr>> >>

JSONCierre == << <<"parte_1", TStr>>, <<"parte_2", TStr>> >>

JSONGuion ==
  << <<"instrucciones_iniciales_juez", TStr>>, <<"apertura", TModel("JSONApertura")>>,
     <<"interrogatorios", TList(TModel("JSONInterrogatorio"))>>,
     <<"objeciones_tipicas", TList(TModel("JSONObjecion"))>>,
     <<"cierre", TModel("JSONCierre")>>, <<"instrucciones_finales_juez", TStr>> >>

JSONMatrizVeredicto == << <<"criterio", TStr>>, <<"peso", TFloat>>, <<"observaciones", TStr>> >>

JSONResultadoAlternativo == << <<"escenario", TStr>>, <<"descripcion", TStr>> >>

JSONDecision ==
  << <<"criterios", TList(TStr)>>,
     <<"matriz_veredicto", TList(TModel("JSONMatrizVeredicto"))>>,
     <<"resultados_alternativos", TList(TModel("JSONResultadoAlternativo"))>> >>

JSONRubrica ==
  << <<"criterio", TStr>>, <<"niveles", TDict(TStr, TStr)>>, <<"puntaje_max", TInt>> >>

JSONGlosario == << <<"termino", TStr>>, <<"definicion", TStr>> >>

SimulationJSON ==
  << <<"meta", TModel("JSONMeta")>>, <<"personajes", TList(TModel("JSONPersonaje"))>>,
     <<"cronologia", TList(TModel("JSONCronologia"))>>,
     <<"planteamiento_juridico", TModel("JSONPlanteamiento")>>,
     <<"pruebas", TModel("JSONPruebas")>>, <<"guion", TModel("JSONGuion")>>,
     <<"decision", TModel("JSONDecision")>>, <<"banco_preguntas", TList(TStr)>>,
     <<"rubrica", TList(TModel("JSONRubrica"))>>, <<"variantes", TList(TStr)>>,
     <<"glosario", TList(TModel("JSONGlosario"))>> >>

Fields(class) ==
  CASE class = "JSONMeta" -> JSONMeta
    [] class = "JSONPersonaje" -> JSONPersonaje
    [] class = "JSONCronologia" -> JSONCronologia
    [] class = "JSONPlanteamiento" -> JSONPlanteamiento
    [] class = "JSONPruebaDocumental" -> JSONPruebaDocumental
    [] class = "JSONPruebaTestimonial" -> JSONPruebaTestimonial
    [] class = "JSONPruebaPericial" -> JSONPruebaPericial
    [] class = "JSONPruebaDigitalFisica" -> JSONPruebaDigitalFisica
    [] class = "JSONPruebas" -> JSONPruebas
    [] class = "JSONInterrogatorio" -> JSONInterrogatorio
    [] class = "JSONObjecion" -> JSONObjecion
    [] class = "JSONApertura" -> JSONApertura
    [] class = "JSONCierre" -> JSONCierre
    [] class = "JSONGuion" -> JSONGuion
    [] class = "JSONMatrizVeredicto" -> JSONMatrizVeredicto
    [] class = "JSONResultadoAlternativo" -> JSONResultadoAlternativo
    [] class = "JSONDecision" -> JSONDecision
    [] class = "JSONRubrica" -> JSONRubrica
    [] class = "JSONGlosario" -> JSONGlosario
    [] class = "SimulationJSON" -> SimulationJSON

(***************************************************************************)
(* SimulationJSON.parse_obj (extractor.py line 86): pydantic's validation, *)
(* by the rules of pydantic 2, the one major version under which           *)
(* schemas.py can be imported (pydantic 1 refuses a field named `json`).   *)
(* Validation coerces as well as checks: an int or float field reads a     *)
(* bool or a string of digits, a float field turns an int into a float;    *)
(* keys that are not fields are dropped.  A result is [ok, val,            *)
(* unsupported]; val is the validated value, a model being its fields in   *)
(* declaration order.  Strings that would be read as a signed, spaced-out, *)
(* fractional or special number set `unsupported`.                         *)
(***************************************************************************)
Valid(v) == [ok |-> TRUE, val |-> v, unsupported |-> FALSE]

Invalid == [ok |-> FALSE, val |-> Null, unsupported |-> FALSE]

Unsupported == [ok |-> FALSE, val |-> Null, unsupported |-> TRUE]

\* a number read from a string: plain digits are read; other texts that
\* could still be a number are not modelled
NumberFromStr(chars) ==
  LET body == strip(chars)
      numeric == Digits \cup {"_", "+", "-", ".", "e", "E"}
      special == {"i", "n", "f", "t", "y", "a", "I", "N", "F", "T", "Y", "A"}
  IN  IF chars # <<>> /\ \A i \in 1..Len(chars) : chars[i] \in Digits
      THEN Valid(Num(DigitsValue(chars)))
      ELSE IF body = <<>> \/ \E i \in 1..Len(body) : body[i] \notin numeric \cup special
      THEN Invalid
      ELSE Unsupported

\* float(n) of an integer
FloatOf(v) == IF v.t = "num" THEN Float(10 * v.n) ELSE v

RECURSIVE Validate(_, _)
RECURSIVE ValidateModel(_, _)
\* a model read leniently: the fields the dict has, validated; the others left out
ValidatePresentFields(class, o) ==
  LET fs == SelectSeq(Fields(class), LAMBDA f : HasKey(o, Str(Chars(f[1]))))
      r  == [i \in 1..Len(fs) |-> Validate(fs[i][2], DictGet(o, Str(Chars(fs[i][1]))))]
  IN  IF \E i \in 1..Len(fs) : r[i].unsupported THEN Unsupported
      ELSE IF \E i \in 1..Len(fs) : ~r[i].ok THEN Invalid
      ELSE Valid(Obj([i \in 1..Len(fs) |-> [k |-> Str(Chars(fs[i][1])), v |-> r[i].val]]))

\* the fields of a model read from the dict items o
ValidateModel(class, o) ==
  LET fs == Fields(class)
      r  == [i \in 1..Len(fs) |->
               IF HasKey(o, Str(Chars(fs[i][1])))
               THEN Validate(fs[i][2], DictGet(o, Str(Chars(fs[i][1]))))
               ELSE Invalid]
  IN  IF \E i \in 1..Len(fs) : r[i].unsupported THEN Unsupported
      ELSE IF \E i \in 1..Len(fs) : ~r[i].ok THEN Invalid
      ELSE Valid(Obj([i \in 1..Len(fs) |-> [k |-> Str(Chars(fs[i][1])), v |-> r[i].val]]))

Validate(type, v) ==
  CASE v.t = "null" -> Invalid
    [] type[1] = "str" -> IF v.t = "str" THEN Valid(v) ELSE Invalid
    [] type[1] \in {"int", "float"} ->
         LET number == CASE v.t = "num" -> Valid(v)
                         [] v.t = "bool" -> Valid(Num(v.n))
                         [] v.t = "float" /\ type[1] = "float" -> Valid(v)
                         [] v.t = "float" -> Unsupported
                         [] v.t = "str" -> NumberFromStr(v.s)
                         [] OTHER -> Invalid
         IN  IF number.ok /\ type[1] = "float" THEN Valid(FloatOf(number.val)) ELSE number
    [] type[1] = "literal" ->
         IF v.t = "str" /\ \E a \in type[2] : Chars(a) = v.s THEN Valid(v) ELSE Invalid
    [] type[1] = "list" ->
         IF v.t # "arr" THEN Invalid
         ELSE LET r == [i \in 1..Len(v.a) |-> Validate(type[2], v.a[i])]
              IN  IF \E i \in 1..Len(v.a) : r[i].unsupported THEN Unsupported
                  ELSE IF \E i \in 1..Len(v.a) : ~r[i].ok THEN Invalid
                  ELSE Valid(Arr([i \in 1..Len(v.a) |-> r[i].val]))
    [] type[1] = "dict" ->
         IF v.t # "obj" THEN Invalid
         ELSE LET rk == [i \in 1..Len(v.o) |-> Validate(type[2], v.o[i].k)]
                  rv == [i \in 1..Len(v.o) |-> Validate(type[3], v.o[i].v)]
              IN  IF \E i \in 1..Len(v.o) : rk[i].unsupported \/ rv[i].unsupported
                  THEN Unsupported
                  ELSE IF \E i \in 1..Len(v.o) : ~rk[i].ok \/ ~rv[i].ok THEN Invalid
                  ELSE Valid(Obj([i \in 1..Len(v.o) |-> [k |-> rk[i].val, v |-> rv[i].val]]))
    [] OTHER -> IF v.t # "obj" THEN Invalid ELSE ValidateModel(type[2], v.o)

ValidationResult(r) ==
  [error |-> IF r.ok THEN "" ELSE "ValidationError", val |-> r.val,
   unsupported |-> r.unsupported]

\* error is "" (val is the record) or "ValidationError"
parse_obj(class, obj) == ValidationResult(Validate(TModel(class), obj))

(***************************************************************************)
(* extractor.py: _try_parse_json.  A transformer is named by the function  *)
(* it is; "identity" is the lambda that returns its argument.  The result  *)
(* has raised # "" when an exception leaves the function; otherwise data   *)
(* is the record (Null for None), last_error the exception of the last     *)
(* failed attempt ("" for None) and stage the transformer that succeeded.  *)
(***************************************************************************)
Transform(transform, json_text) ==
  CASE transform = "_sanitize_json" ->
         [raised |-> "", text |-> _sanitize_json(json_text), unsupported |-> FALSE]
    [] transform = "_coerce_python_literals" -> _coerce_python_literals(json_text)
    [] OTHER -> [raised |-> "", text |-> json_text, unsupported |-> FALSE]

\* how the loop of lines 81-89 ends at transformer k
Attempt(k, raised, data, unsupported) ==
  [raised |-> raised, data |-> data, last_error |-> "", stage |-> k,
   unsupported |-> unsupported]

RECURSIVE TryTransformers(_, _, _, _)
\* line 86: the parsed value is validated
TryParsed(json_text, transformers, k, model) ==
  IF model.unsupported THEN Attempt(k, "", Null, TRUE)
  ELSE IF model.error = "ValidationError"
  THEN TryTransformers(json_text, transformers, k + 1, "ValidationError")
  ELSE Attempt(k, "", model.val, FALSE)

\* line 85: the candidate is parsed
TryCandidate(json_text, transformers, k, parsed) ==
  IF parsed.unsupported THEN Attempt(k, "", Null, TRUE)
  ELSE IF ~parsed.ok
  THEN TryTransformers(json_text, transformers, k + 1, "JSONDecodeError")
  ELSE TryParsed(json_text, transformers, k, parse_obj("SimulationJSON", parsed.val))

\* line 83: what transformer k made of the text
TryTransformed(json_text, transformers, k, candidate) ==
  IF candidate.unsupported THEN Attempt(k, "", Null, TRUE)
  ELSE IF candidate.raised # "" THEN Attempt(k, candidate.raised, Null, FALSE)
  ELSE TryCandidate(json_text, transformers, k, json_loads(strip(candidate.text)))

TryTransformers(json_text, transformers, k, last_error) ==
  IF k > Len(transformers)
  THEN [raised |-> "", data |-> Null, last_error |-> last_error, stage |-> 0,
        unsupported |-> FALSE]
  ELSE TryTransformed(json_text, transformers, k, Transform(transformers[k], json_text))

\* only the candidate as it is, whatever the transformers
TriesIdentityOnly(json_text, transformers) ==
  TryTransformers(json_text, <<"identity">>, 1, "")

_try_parse_json(json_text, transformers) ==
  TryTransformers(json_text, IF transformers = <<>> THEN <<"identity">> ELSE transformers,
                  1, "")

(***************************************************************************)
(* extractor.py: _find_json_block.  The result is [json, span]: json is    *)
(* the candidate text, span the 0-based half-open (start, end) pair;       *)
(* found is FALSE for (None, None).                                        *)
(***************************************************************************)
\* raw_text.find("{", from), as a 1-based position; Len + 1 stands for -1
FindBrace(t, from) ==
  FirstIn(t, {"{"}, from, Len(t))

\* lines 219-224: the candidate between the braces is parsed
BraceScanParsed(t, s, end, parsed) ==
  IF parsed.unsupported THEN [s EXCEPT !.index = Len(t) + 1, !.unsupported = TRUE]
  ELSE IF parsed.ok
  THEN [s EXCEPT !.index = Len(t) + 1, !.found = TRUE,
                 !.json = SubSeq(t, s.index, end + 1),
                 !.span = <<s.index - 1, end + 1>>]
  ELSE [s EXCEPT !.index = FindBrace(t, s.index + 1)]

\* lines 215-218: without a matching brace the scan is over
BraceScanMatched(t, s, end) ==
  IF end = NoIndex THEN [s EXCEPT !.index = Len(t) + 1]
  ELSE BraceScanParsed(t, s, end, json_loads(SubSeq(t, s.index, end + 1)))

\* one turn of the loop of lines 213-224; s.index is the position of `start`
BraceScanBody(t, s) == BraceScanMatched(t, s, _find_matching_brace(t, s.index - 1))

\* `while start != -1`: BraceScanBody runs at the position s.index points at
\* (the halving only keeps the evaluation depth logarithmic)
RECURSIVE BraceScanLoop(_, _, _, _)
BraceScanLoop(t, lo, hi, s) ==
  IF lo > hi THEN s
  ELSE IF lo = hi THEN (IF s.index = lo THEN BraceScanBody(t, s) ELSE s)
  ELSE LET s1 == BraceScanLoop(t, lo, (lo + hi) \div 2, s)
       IN  IF s1.index >= lo THEN BraceScanLoop(t, (lo + hi) \div 2 + 1, hi, s1) ELSE s1

BraceBlock(s) ==
  [found |-> s.found, json |-> s.json, span |-> s.span, unsupported |-> s.unsupported]

\* lines 212-226: the scan from the first brace, at position start
BraceScan(raw_text, start) ==
  BraceBlock(BraceScanLoop(raw_text, start, Len(raw_text),
                           [index |-> start, found |-> FALSE, json |-> <<>>,
                            span |-> <<0, 0>>, unsupported |-> FALSE]))

\* lines 208-210: a fenced block wins
FindBlock(raw_text, match) ==
  IF match.found
  THEN [found |-> TRUE, json |-> match.json, span |-> <<match.start, match.end>>,
        unsupported |-> FALSE]
  ELSE BraceScan(raw_text, FindBrace(raw_text, 1))

_find_json_block(raw_text) == FindBlock(raw_text, JSON_BLOCK_PATTERN_search(raw_text))

(***************************************************************************)
(* extractor.py: extract_simulation_payload.  raised # "" when an          *)
(* exception leaves the function; otherwise markdown, json (Null for None) *)
(* and warnings are the returned triple.  found, json_block and span are   *)
(* what _find_json_block gave it at line 233.                              *)
(***************************************************************************)
WarnNotValidated ==
  "No se pudo validar el bloque JSON generado. Se entrega solo el Markdown."

WarnNoJson == "No se detectó un bloque JSON válido en la respuesta del modelo."

WarnNothing ==
  "El modelo no devolvió contenido en Markdown ni proporcionó un JSON estructurado válido."

WarnOnlyJson ==
  "El modelo no devolvió contenido en Markdown. Se entrega solo el JSON estructurado disponible."

ExtractorTransformers == <<"identity", "_sanitize_json", "_coerce_python_literals">>

\* a document that keeps the block
WholeText(raw_text, block) == raw_text

\* extractor.py lines 250-253: the raw text without the span of the block
MarkdownPart(raw_text, block) ==
  IF block.found
  THEN SubSeq(raw_text, 1, block.span[1])
         \o SubSeq(raw_text, block.span[2] + 1, Len(raw_text))
  ELSE raw_text

\* an empty document always explained as neither artifact
WarnsNeitherArtifact(warnings, cleaned_markdown, simulation_data) ==
  IF cleaned_markdown # <<>> THEN warnings ELSE Append(warnings, WarnNothing)

\* extractor.py lines 257-265: the warning for an empty document
EmptyDocumentWarnings(warnings, cleaned_markdown, simulation_data) ==
  IF cleaned_markdown # <<>> THEN warnings
  ELSE IF simulation_data = Null THEN Append(warnings, WarnNothing)
  ELSE Append(warnings, WarnOnlyJson)

\* lines 236-267, with the block of line 233 and what line 238 makes of it
ExtractTried(raw_text, block, tried) ==
  LET has_block == block.found /\ block.json # <<>>
      simulation_data == IF has_block THEN tried.data ELSE Null
      warnings1 ==
        IF has_block
        THEN IF simulation_data = Null /\ tried.last_error # ""
             THEN <<WarnNotValidated>> ELSE <<>>
        ELSE <<WarnNoJson>>
      cleaned_markdown == strip(MarkdownPart(raw_text, block))
      warnings2 == EmptyDocumentWarnings(warnings1, cleaned_markdown, simulation_data)
      out(raised, unsupported) ==
        [raised |-> raised,
         markdown |-> IF raised = "" /\ ~unsupported THEN cleaned_markdown ELSE <<>>,
         json |-> IF raised = "" /\ ~unsupported THEN simulation_data ELSE Null,
         warnings |-> IF raised = "" /\ ~unsupported THEN warnings2 ELSE <<>>,
         found |-> block.found, json_block |-> block.json, span |-> block.span,
         unsupported |-> unsupported]
  IN  IF block.unsupported THEN out("", TRUE)
      ELSE IF has_block /\ tried.unsupported THEN out("", TRUE)
      ELSE IF has_block /\ tried.raised # "" THEN out(tried.raised, FALSE)
      ELSE out("", FALSE)

ExtractBlock(raw_text, block) ==
  ExtractTried(raw_text, block, _try_parse_json(block.json, ExtractorTransformers))

extract_simulation_payload(raw_text) == ExtractBlock(raw_text, _find_json_block(raw_text))

(***************************************************************************)
(* The texts the language model may answer with.  A payload is a value     *)
(* with the eleven sections of a record, written out the way json.dumps    *)
(* does, or relaxed: with a comma after the last item of every list and    *)
(* dict, with comments, or as a Python literal.  The answer is the payload *)
(* alone, fenced, or fenced inside prose (tests/test_extractor.py).        *)
(***************************************************************************)
S(x) == Str(Chars(x))

Item(name, v) == [k |-> S(name), v |-> v]

\* a record's payload; titulo, nivel and duracion_minutos are any values
Payload(titulo, nivel, duracion_minutos) ==
  Obj(<< Item("meta", Obj(<< Item("titulo", titulo), Item("jurisdiccion", S("CO")),
                             Item("materia", S("penal")), Item("nivel", nivel),
                             Item("objetivo_didactico", S("o")),
                             Item("duracion_minutos", duracion_minutos) >>)),
         Item("personajes", Arr(<<>>)),
         Item("cronologia", Arr(<< Obj(<< Item("t", S("t0")), Item("evento", S("e")) >>) >>)),
         Item("planteamiento_juridico",
              Obj(<< Item("tipo", S("penal")), Item("cargos_o_pretensiones", Arr(<<>>)),
                     Item("estandar_probatorio", S("e")), Item("notas", S("n")) >>)),
         Item("pruebas", Obj(<< Item("documental", Arr(<<>>)), Item("testimonial", Arr(<<>>)),
                                Item("pericial", Arr(<<>>)),
                                Item("digital_fisica", Arr(<<>>)) >>)),
         Item("guion",
              Obj(<< Item("instrucciones_iniciales_juez", S("i")),
                     Item("apertura", Obj(<< Item("parte_1", S("a")), Item("parte_2", S("b")) >>)),
                     Item("interrogatorios", Arr(<<>>)),
                     Item("objeciones_tipicas", Arr(<<>>)),
                     Item("cierre", Obj(<< Item("parte_1", S("c")), Item("parte_2", S("d")) >>)),
                     Item("instrucciones_finales_juez", S("f")) >>)),
         Item("decision", Obj(<< Item("criterios", Arr(<<>>)),
                                 Item("matriz_veredicto", Arr(<<>>)),
                                 Item("resultados_alternativos", Arr(<<>>)) >>)),
         Item("banco_preguntas", Arr(<< S("q") >>)),
         Item("rubrica", Arr(<<>>)),
         Item("variantes", Arr(<<>>)),
         Item("glosario", Arr(<<>>)) >>)

\* the payload without its last section
WithoutGlosario(payload) == Obj(SubSeq(payload.o, 1, Len(payload.o) - 1))

\* titles: plain, and with text that looks like JSON syntax inside the string
Titles ==
  { S("Caso"), S("a,]b"), S("ver http://x"), S("a/*b*/c"), S("es null"), S("di \"si\""),
    Str(<<"a", Backtick, Backtick, Backtick, "b">>) }

ValidPayloads == { Payload(titulo, S("basico"), Num(90)) : titulo \in Titles }

\* accepted by validation, but coerced or cut down by it
LaxPayloads ==
  { Payload(S("Caso"), S("basico"), S("90")), Payload(S("Caso"), S("basico"), Bool(TRUE)) }

InvalidPayloads ==
  { Payload(S("Caso"), S("experto"), Num(90)), Payload(S("Caso"), S("basico"), S("x")),
    Payload(Null, S("basico"), Num(90)), Payload(Num(5), S("basico"), Num(90)),
    WithoutGlosario(Payload(S("Caso"), S("basico"), Num(90))) }

Payloads == ValidPayloads \cup LaxPayloads \cup InvalidPayloads

\* repr() of a string, always with single quotes
PyQuote(chars) ==
  <<"'">> \o Join([i \in 1..Len(chars) |->
                     CASE chars[i] = "'" -> <<"\\", "'">> [] chars[i] = "\\" -> <<"\\", "\\">>
                       [] chars[i] = "\n" -> <<"\\", "n">> [] OTHER -> <<chars[i]>>], <<>>)
          \o <<"'">>

\* the payload as text; style is "json", "trailing" or "python"
RECURSIVE Write(_, _)
Write(v, style) ==
  LET last == IF style = "trailing" THEN <<",">> ELSE <<>>
      items(parts) == IF parts = <<>> THEN <<>> ELSE Join(parts, <<",", " ">>) \o last
  IN  CASE v.t = "str"  -> IF style = "python" THEN PyQuote(v.s) ELSE JsonQuote(v.s)
        [] v.t = "num"  -> IntToChars(v.n)
        [] v.t = "bool" -> IF style = "python"
                           THEN (IF v.n = 1 THEN Chars("True") ELSE Chars("False"))
                           ELSE (IF v.n = 1 THEN Chars("true") ELSE Chars("false"))
        [] v.t = "null" -> IF style = "python" THEN Chars("None") ELSE Chars("null")
        [] v.t = "arr"  ->
             <<"[">> \o items([i \in 1..Len(v.a) |-> Write(v.a[i], style)]) \o <<"]">>
        [] OTHER ->
             <<"{">> \o items([i \in 1..Len(v.o) |->
                                 Write(v.o[i].k, style) \o <<":", " ">> \o Write(v.o[i].v, style)])
                     \o <<"}">>

Styles == {"json", "trailing", "python", "line_comment", "block_comment"}

PayloadText(payload, style) ==
  LET text == Write(payload, "json")
  IN  CASE style = "line_comment" ->
             SubSeq(text, 1, Len(text) - 1) \o Chars("\n// comentario extra del modelo\n}")
        [] style = "block_comment" -> <<"{">> \o Chars(" /* nota */") \o Tail(text)
        [] OTHER -> Write(payload, style)

Fence(tag, body) ==
  <<Backtick, Backtick, Backtick>> \o Chars(tag) \o <<"\n">> \o body \o <<"\n">>
    \o <<Backtick, Backtick, Backtick>>

\* the prose around the payload: <<before, after>>
Proses ==
  { <<"", "">>, <<"Contenido introductorio\n", "">>, <<"Intro\n", "\nFin">> }

InProse(prose, text) == Chars(prose[1]) \o text \o Chars(prose[2])

FencedAnswers ==
  { InProse(prose, Fence("json", PayloadText(payload, style))) :
      prose \in Proses, payload \in Payloads, style \in Styles }

\* a record written as a Python literal, with a comment after the first brace
CommentedPythonText ==
  <<"{">> \o Chars(" /* nota */")
    \o Tail(Write(Payload(S("Caso"), S("basico"), Num(90)), "python"))

\* other fences: the tag in capitals, a fence without a tag, two blocks of
\* which the first holds no record, a block after braces in the prose
OtherFencedAnswers ==
  LET text == PayloadText(Payload(S("Caso"), S("basico"), Num(90)), "json")
  IN  { Fence("JSON", text),
        Chars("Intro\n") \o Fence("Json", text),
        Chars("Intro\n") \o Fence("", text),
        Chars("a ") \o Fence("json", Chars("{\"k\": 1}")) \o Chars(" b ") \o Fence("json", text),
        Chars("a {\"k\": 1} b ") \o Fence("json", text),
        Chars("a {\"k\": 1} b ") \o Fence("json", Chars("no es json")),
        Chars("a ") \o Fence("json", text) \o Chars(" b {\"k\": 1}"),
        Chars("  Antes\n") \o Fence("json", text) \o Chars("\nDespues \n"),
        Chars("Intro ") \o Fence("json", <<>>),
        Fence("json", Chars("  ")),
        Chars("Intro ") \o Fence("json", Chars("[[1, 2]]")),
        Chars("Intro ") \o Fence("json", Chars("{[1]: 2}")),
        Chars("Intro ") \o Fence("json", Chars("{\"a\": {1, 2}}")),
        Chars("Intro\n") \o Fence("json", CommentedPythonText) }

\* answers without a fence: the payload alone or in prose, braces that hold
\* no JSON, and no braces at all
BareAnswers ==
  LET text == PayloadText(Payload(S("Caso"), S("basico"), Num(90)), "json")
      relaxed == PayloadText(Payload(S("Caso"), S("basico"), Num(90)), "trailing")
  IN  { text, Chars("Intro\n") \o text \o Chars("\nFin"),
        Chars("a {x} b ") \o text, Chars("a { b ") \o text, text \o Chars(" {\"k\": 1}"),
        relaxed, Chars("Intro ") \o relaxed,
        Chars("a {\"k\": 1} b"), Chars("a {x} b"), Chars("{}"), Chars("a {\"k\": \"}\"} b"),
        Chars("a { b"), Chars("a } { b"), Chars("hola"), Chars(" hola \n"), Chars(" \n"), <<>> }

\* every short text over a few characters of JSON syntax, fenced
BodyAlphabet == {"{", "}", "[", "]", "\"", ","}

MaxBodyLen == 4

ShortBodies == UNION { [1..n -> BodyAlphabet] : n \in 1..MaxBodyLen }

ShortAnswers == { Chars("x ") \o Fence("json", body) : body \in ShortBodies }

Answers == FencedAnswers \cup OtherFencedAnswers \cup BareAnswers \cup ShortAnswers

(***************************************************************************)
(* fallbacks.py: the substitute document and record, built from the        *)
(* request alone.  A request is a record of values with the fields of      *)
(* SimulateRequest (schemas.py lines 9-38).                                *)
(***************************************************************************)
\* context.split(): the maximal runs of characters that are not whitespace
RECURSIVE split(_)
split(chars) ==
  LET start == FirstNotIn(chars, Whitespace, 1, Len(chars))
      end   == FirstIn(chars, Whitespace, start, Len(chars))
  IN  IF start > Len(chars) THEN <<>>
      ELSE <<SubSeq(chars, start, end - 1)>> \o split(SubSeq(chars, end, Len(chars)))

\* the context as it was sent
RawContext(context) == context

_normalize_context(context) ==
  LET snippet == Join(split(context), <<" ">>)
  IN  strip(SubSeq(snippet, 1, IF Len(snippet) < 280 THEN Len(snippet) ELSE 280))

\* re.split(r"(?<=[.!?])\s+", chars): cut at every run of whitespace that
\* follows a full stop, an exclamation mark or a question mark
\* the least k in lo..hi where whitespace follows ".", "!" or "?", or hi + 1
RECURSIVE FirstSentenceBreak(_, _, _)
FirstSentenceBreak(t, lo, hi) ==
  IF lo > hi THEN hi + 1
  ELSE IF lo = hi THEN (IF lo > 1 /\ t[lo] \in Whitespace /\ t[lo - 1] \in {".", "!", "?"} THEN lo ELSE hi + 1)
  ELSE LET k == FirstSentenceBreak(t, lo, (lo + hi) \div 2)
       IN  IF k <= (lo + hi) \div 2 THEN k
           ELSE FirstSentenceBreak(t, (lo + hi) \div 2 + 1, hi)

RECURSIVE re_split_sentences(_)
re_split_sentences(chars) ==
  LET at  == FirstSentenceBreak(chars, 1, Len(chars))
      end == FirstNotIn(chars, Whitespace, at, Len(chars))
  IN  IF at > Len(chars) THEN <<chars>>
      ELSE <<SubSeq(chars, 1, at - 1)>> \o re_split_sentences(SubSeq(chars, end, Len(chars)))

\* fragment.strip("- ")
strip_chars(t, cs) ==
  LET a == FirstNotIn(t, cs, 1, Len(t))
      b == LastNotIn(t, cs, 1, Len(t))
  IN  IF a > Len(t) THEN <<>> ELSE SubSeq(t, a, b)

_context_points(context) ==
  LET snippet   == _normalize_context(context)
      fragments == re_split_sentences(snippet)
      kept      == SelectSeq(fragments, LAMBDA fragment : Len(strip(fragment)) >= 8)
      bullets   == [i \in 1..Len(kept) |-> strip_chars(kept[i], {"-", " "})]
  IN  IF snippet = <<>> THEN <<>>
      ELSE SubSeq(bullets, 1, IF Len(bullets) < 5 THEN Len(bullets) ELSE 5)

\* str.lower() and str.title() of ASCII text
LowerAlphabet == "abcdefghijklmnopqrstuvwxyz"

UpperAlphabet == "ABCDEFGHIJKLMNOPQRSTUVWXYZ"

LetterIndex(c) ==
  CHOOSE k \in 1..26 : SubSeq(LowerAlphabet, k, k) = c \/ SubSeq(UpperAlphabet, k, k) = c

lower(chars) ==
  [i \in 1..Len(chars) |->
     IF chars[i] \in UpperLetters
     THEN SubSeq(LowerAlphabet, LetterIndex(chars[i]), LetterIndex(chars[i]))
     ELSE chars[i]]

title(chars) ==
  [i \in 1..Len(chars) |->
     LET cased(c) == c \in LowerLetters \cup UpperLetters
         k == LetterIndex(chars[i])
     IN  IF ~cased(chars[i]) THEN chars[i]
         ELSE IF i > 1 /\ cased(chars[i - 1]) THEN SubSeq(LowerAlphabet, k, k)
         ELSE SubSeq(UpperAlphabet, k, k)]

_build_role_map(materia) ==
  CASE lower(materia) = Chars("penal") ->
         << Chars("Juez(a): resalta garantías y controla objeciones sobre cadena de custodia."),
            Chars("Fiscalía: enfatiza dolo o culpa con base en testimonios y peritajes viales."),
            Chars("Defensa: instala duda razonable sobre causalidad, visibilidad y deber objetivo de cuidado."),
            Chars("Perito en tránsito: explica recreación del siniestro y límites de su pericia.") >>
    [] lower(materia) = Chars("civil") ->
         << Chars("Juez(a): delimita la litis y verifica legitimación en la causa."),
            Chars("Parte demandante: acredita daño y nexo causal con documentos y testigos técnicos."),
            Chars("Parte demandada: cuestiona cuantificación y prueba pericial presentada."),
            Chars("Perito contable o de daños: detalla metodología de tasación propuesta.") >>
    [] lower(materia) = Chars("laboral") ->
         << Chars("Juez(a) laboral: procura principio de primacía de la realidad y economía procesal."),
            Chars("Trabajador(a): sostiene hechos mediante relato cronológico y documentos contractuales."),
            Chars("Empleador(a): se enfoca en reglamentos internos y cumplimiento de obligaciones."),
            Chars("Inspector(a) de trabajo: aporta criterios técnicos sobre condiciones y riesgos.") >>
    [] OTHER ->
         << Chars("Moderador(a) docente: marca ritmo de la simulación y enlaza con normativa aplicable."),
            Chars("Parte actora: estructura relato coherente con la hipótesis jurídica principal."),
            Chars("Parte opositora: plantea excepciones y objeciones estratégicas."),
            Chars("Experto(a) invitado(a): entrega marco técnico o normativo que refuerza la discusión.") >>

_risk_guidance(materia) ==
  CASE lower(materia) = Chars("penal") ->
         << Chars("Cadena de custodia deficiente o discutible en evidencia material o digital."),
            Chars("Confusión entre culpa y dolo al formular los cargos o solicitar la condena."),
            Chars("Testigos presenciales con percepciones limitadas por ángulos o iluminación.") >>
    [] lower(materia) = Chars("civil") ->
         << Chars("Documentos sin protocolizar que pueden recibir tacha de falsedad."),
            Chars("Falta de peritaje actualizado que respalde cuantificación de perjuicios."),
            Chars("Nexo causal débil entre la conducta imputada y el daño alegado.") >>
    [] lower(materia) = Chars("laboral") ->
         << Chars("Insuficiente acreditación de subordinación o dependencia económica."),
            Chars("Registros de jornada incompletos que dificultan probar horas extra."),
            Chars("Testigos compañeros con posible sesgo por solidaridad laboral.") >>
    [] OTHER ->
         << Chars("Falta de delimitación clara de la litis y de los hechos controvertidos."),
            Chars("Uso de objeciones improcedentes que entorpecen el flujo didáctico."),
            Chars("Evidencia sin trazabilidad descrita que afecte la credibilidad del ejercicio.") >>

_learning_focus(nivel, objetivo) ==
  LET base == << Chars("Conectar todas las intervenciones con el objetivo didáctico: ") \o objetivo \o Chars("."),
                 Chars("Registrar reflexiones posteriores para retroalimentación conjunta.") >>
      first ==
        CASE lower(nivel) = Chars("basico") -> 
               Chars("Repasar estructura de audiencia y turnos procesales antes de iniciar.")
          [] lower(nivel) = Chars("intermedio") -> 
               Chars("Profundizar en técnicas de objeción y contrainterrogatorio planificado.")
          [] lower(nivel) = Chars("avanzado") -> 
               Chars("Promover improvisación estratégica respetando reglas probatorias.")
          [] OTHER -> 
               Chars("Ajustar el ritmo del ejercicio al bagaje del grupo participante.")
  IN  <<first>> \o base

\* datetime(2035, 1, 1, 9, 0)
\* the time of the call, as a clock that moves between two calls gives it
TimeOfCall ==
  [year |-> 2035, month |-> 1, day |-> 1, hour |-> 9,
   minute |-> IF pc = "call" THEN 0 ELSE 1]

_FALLBACK_BASE_TIME == [year |-> 2035, month |-> 1, day |-> 1, hour |-> 9, minute |-> 0]

\* minutes added with no carry into the hour
PlusMinutesNoCarry(moment, offset) == [moment EXCEPT !.minute = @ + offset]

\* moment + timedelta(minutes=offset), for an offset that ends on the same day
PlusMinutes(moment, offset) ==
  LET minutes == 60 * moment.hour + moment.minute + offset
  IN  [moment EXCEPT !.hour = minutes \div 60, !.minute = minutes % 60]

\* moment.strftime("%Y-%m-%d %H:%M"), for a year of four digits
strftime(moment) ==
  LET two(n) == IF n < 10 THEN <<"0">> \o IntToChars(n) ELSE IntToChars(n)
  IN  IntToChars(moment.year) \o <<"-">> \o two(moment.month) \o <<"-">> \o two(moment.day)
        \o <<" ">> \o two(moment.hour) \o <<":">> \o two(moment.minute)

_build_timeline(base_time) ==
  LET events == << <<"Inicio de audiencia de acusación", 0>>,
                   <<"Presentación de pruebas y objeciones", 30>>,
                   <<"Deliberación y conclusiones pedagógicas", 90>> >>
  IN  Arr([i \in 1..Len(events) |->
             Obj(<< Item("t", Str(strftime(PlusMinutes(base_time, events[i][2])))),
                    Item("evento", S(events[i][1])) >>)])

\* sha256(context).hexdigest()[:16], tabulated for the contexts of the requests,
\* as they are and normalised
_hash_context(context) ==
  CASE context = Chars("Linea 1 Linea 2 Linea 3") -> Chars("6a4a118b765e8bac")
    [] context = Chars("Choque vial en la noche. Dos testigos declaran. - Hay un video.") -> Chars("6228d43159f8a4a4")
    [] context = Chars("Hurto. Si! Sin testigos. Fin.") -> Chars("4236cb57c2ce0ce8")
    [] context = Chars("a. b. c. d. e.") -> Chars("382623f0dcd76850")
    [] context = Chars("Hecho 1: xxxxxxxxxxxxxxxxxxxxxxxxxxxxxxxxxxxxxxxxxxxxxxxxxxxxxxxxxxxxxxxxxxxxxxxxxxxxxxxxxxxxxxxxxxxxxxx. Hecho 2: xxxxxxxxxxxxxxxxxxxxxxxxxxxxxxxxxxxxxxxxxxxxxxxxxxxxxxxxxxxxxxxxxxxxxxxxxxxxxxxxxxxxxxxxxxxxxxx. Hecho 3: xxxxxxxxxxxxxxxxxxxxxxxxxxxxxxxxxxxxxxxxxxxxxxxxxxxxxxxxxxx") -> Chars("85a95fedbdb15225")
    [] context = Chars("Linea 1\nLinea 2\nLinea 3") -> Chars("5d0a5588dcb86533")
    [] context = Chars("a.\nb.\nc. d. e.") -> Chars("eeb64b53e2ba9f1b")
    [] context = Chars("Linea 1\n  Linea 2\nLinea 3 ") -> Chars("fe40584587ddb5af")
    [] context = Chars("Hecho 1: xxxxxxxxxxxxxxxxxxxxxxxxxxxxxxxxxxxxxxxxxxxxxxxxxxxxxxxxxxxxxxxxxxxxxxxxxxxxxxxxxxxxxxxxxxxxxxx.\nHecho 2: xxxxxxxxxxxxxxxxxxxxxxxxxxxxxxxxxxxxxxxxxxxxxxxxxxxxxxxxxxxxxxxxxxxxxxxxxxxxxxxxxxxxxxxxxxxxxxx.\nHecho 3: xxxxxxxxxxxxxxxxxxxxxxxxxxxxxxxxxxxxxxxxxxxxxxxxxxxxxxxxxxxxxxxxxxxxxxxxxxxxxxxxxxxxxxxxxxxxxxx.") -> Chars("8b49ec8af0fef854")

\* cls(**fields): the model built from keyword arguments, validated
Construct(class, fields) == parse_obj(class, Obj(fields))

build_fallback_markdown(request) ==
  LET contexto == _normalize_context(request.contexto.s)
      jurisdiccion == IF request.jurisdiccion.t = "str" /\ request.jurisdiccion.s # <<>>
                      THEN request.jurisdiccion.s
                      ELSE Chars("Jurisdicción genérica")
      points == _context_points(request.contexto.s)
      context_points ==
        IF points # <<>> THEN points
        ELSE << Chars("El contexto proporcionado fue muy breve; se recomienda ampliarlo antes de la simulación.") >>
      role_map == _build_role_map(request.materia.s)
      risks == _risk_guidance(request.materia.s)
      learning_focus == _learning_focus(request.nivel.s, request.objetivo_didactico.s)
      bullets(items) == [i \in 1..Len(items) |-> Chars("- ") \o items[i]]
      lines ==
        << Chars("# Simulación de respaldo LexSim"),
           <<>>,
           Chars("_Contenido generado automáticamente debido a un fallo del modelo._"),
           <<>>,
           Chars("## Resumen del caso"),
           Chars("- **Jurisdicción:** ") \o jurisdiccion,
           Chars("- **Materia:** ") \o request.materia.s,
           Chars("- **Nivel:** ") \o request.nivel.s,
           Chars("- **Objetivo didáctico:** ") \o request.objetivo_didactico.s,
           Chars("- **Duración estimada:** ") \o IntToChars(request.duracion_min.n) \o Chars(" minutos"),
           <<>>,
           Chars("### Contexto sintetizado"),
           IF contexto # <<>> THEN contexto
           ELSE Chars("El contexto proporcionado fue muy breve, se recomienda revisarlo."),
           <<>>,
           Chars("#### Hechos clave a resaltar") >>
        \o bullets(context_points) \o
        << <<>>,
           Chars("## Plan mínimo de audiencia (90 minutos)"),
           Chars("1. **Apertura (15 min):** Presentar teoría del caso, delimitar hechos y normas aplicables."),
           Chars("2. **Presentación de pruebas (40 min):** Introducir documentos, testimonios y pericias del bloque de respaldo."),
           Chars("3. **Contrainterrogatorios (20 min):** Enfatizar objeciones frecuentes y control judicial activo."),
           Chars("4. **Alegatos de cierre (10 min):** Vincular evidencias con estándares probatorios."),
           Chars("5. **Retroalimentación docente (5 min):** Resaltar aprendizajes y puntos a reforzar."),
           <<>>,
           Chars("### Roles sugeridos") >>
        \o bullets(role_map) \o
        << <<>>,
           Chars("### Riesgos procesales a monitorear") >>
        \o bullets(risks) \o
        << <<>>,
           Chars("### Líneas argumentales iniciales"),
           Chars("- **Parte acusadora/actora:** Relaciona el contexto con normativa y estándares probatorios."),
           Chars("- **Parte defensora/opositora:** Identifica vacíos fácticos o contradicciones derivadas del fallback."),
           Chars("- **Testigos y peritos:** Preparan relatos breves centrados en hechos observables y límites metodológicos."),
           <<>>,
           Chars("### Enfoque pedagógico sugerido") >>
        \o bullets(learning_focus) \o
        << <<>>,
           Chars("### Banco de preguntas rápidas"),
           Chars("- ¿Qué objeción sería más eficaz frente a cada prueba adversa?"),
           Chars("- ¿Cómo justificar la admisión de la evidencia con base en reglas locales?"),
           Chars("- ¿Qué variantes podrían explorar los estudiantes para fortalecer la simulación?"),
           <<>>,
           Chars("### Próximos pasos recomendados"),
           Chars("1. Ajustar o ampliar el contexto antes de reutilizar el fallback."),
           Chars("2. Preparar guiones individuales con base en los roles sugeridos."),
           Chars("3. Registrar conclusiones en acta pedagógica para dar seguimiento."),
           <<>>,
           Chars("---"),
           Chars("_Este material de contingencia asegura que la práctica pedagógica pueda continuar aun sin la salida del modelo._") >>
  IN  Join(lines, <<"\n">>)

\* a case type that does not follow the request
PlanteamientoTipoPenal(materia) == S("penal")

\* fallbacks.py line 303: the tipo of the planteamiento
PlanteamientoTipo(materia) ==
  IF materia.s \in {Chars("penal"), Chars("civil"), Chars("laboral"), Chars("administrativo")}
  THEN materia ELSE S("otro")

build_fallback_simulation_json(request) ==
  LET jurisdiccion == IF request.jurisdiccion.t = "str" /\ request.jurisdiccion.s # <<>>
                      THEN request.jurisdiccion.s
                      ELSE Chars("Jurisdicción genérica")
      normalized == _normalize_context(request.contexto.s)
      context_snippet == IF normalized # <<>> THEN normalized
                         ELSE Chars("Contexto resumido no disponible")
      context_hash == _hash_context(context_snippet)
      meta ==
        Obj(<< Item("titulo", Str(Chars("Simulación de contingencia: ") \o title(request.materia.s))),
               Item("jurisdiccion", Str(jurisdiccion)),
               Item("materia", request.materia),
               Item("nivel", request.nivel),
               Item("objetivo_didactico", request.objetivo_didactico),
               Item("duracion_minutos", request.duracion_min) >>)
      personajes ==
        Arr(<< Obj(<< Item("nombre", S("Juez(a) de Control LexSim")),
                      Item("rol", S("juez")),
                      Item("bio", S("Facilitador ficticio que modera el ejercicio cuando el modelo falla.")),
                      Item("objetivos", Arr(<< S("Garantizar continuidad de la práctica"),
                                 S("Modelar decisiones imparciales") >>)),
                      Item("sesgos", Arr(<< S("Preferencia por material estructurado") >>)) >>),
               Obj(<< Item("nombre", S("Fiscal sustituto")),
                      Item("rol", S("fiscal")),
                      Item("bio", S("Representación académica que usa el contexto proporcionado para sustentar cargos.")),
                      Item("objetivos", Arr(<< S("Vincular hechos a la teoría del caso"),
                                 S("Aprovechar el material de respaldo") >>)),
                      Item("sesgos", Arr(<< S("Confianza en informes escritos") >>)) >>),
               Obj(<< Item("nombre", S("Defensor(a) de oficio académico")),
                      Item("rol", S("defensa")),
                      Item("bio", S("Profesional ficticio encargado de impugnar la versión acusatoria usando solo el contexto.")),
                      Item("objetivos", Arr(<< S("Resaltar dudas razonables"),
                                 S("Proteger el debido proceso") >>)),
                      Item("sesgos", Arr(<< S("Estrategias prudentes") >>)) >>),
               Obj(<< Item("nombre", S("Testigo contextual")),
                      Item("rol", S("testigo")),
                      Item("bio", S("Figura creada para narrar los hechos descritos en el contexto proporcionado.")),
                      Item("objetivos", Arr(<< S("Describir hechos relevantes"),
                                 S("Responder a contrainterrogatorios") >>)),
                      Item("sesgos", Arr(<< S("Recuerdos influenciados por el estrés") >>)) >>) >>)
      cronologia ==
        _build_timeline(_FALLBACK_BASE_TIME)
      planteamiento_juridico ==
        Obj(<< Item("tipo", PlanteamientoTipo(request.materia)),
               Item("cargos_o_pretensiones", Arr(<< Str(Chars("Análisis de responsabilidad según contexto: ")
                                \o SubSeq(context_snippet, 1, IF Len(context_snippet) < 60 THEN Len(context_snippet) ELSE 60)) >>)),
               Item("estandar_probatorio", S("Determinable según normatividad aplicable")),
               Item("notas", S("Escenario generado automáticamente por ausencia de salida del modelo.")) >>)
      pruebas ==
        Obj(<< Item("documental", Arr(<< Obj(<< Item("id", S("DOC-FB-01")),
                                 Item("descripcion", S("Resumen documental construido con la información disponible en el contexto.")),
                                 Item("origen", S("Archivo de respaldo LexSim")),
                                 Item("autenticidad_custodia", S("Cadena hipotética verificada para fines académicos")),
                                 Item("posibles_objeciones", Arr(<< S("Pertinencia"),
                                            S("Fundamento insuficiente") >>)) >>) >>)),
               Item("testimonial", Arr(<< Obj(<< Item("id", S("TES-FB-01")),
                                 Item("testigo", S("Testigo contextual")),
                                 Item("alcance", S("Relata los hechos descritos en el contexto de la solicitud.")),
                                 Item("riesgos_credibilidad", Arr(<< S("Memoria dependiente de notas de respaldo") >>)),
                                 Item("contrapreguntas_sugeridas", Arr(<< S("Precise circunstancias observadas"),
                                            S("Indique fuentes de su conocimiento") >>)) >>) >>)),
               Item("pericial", Arr(<< Obj(<< Item("id", S("PER-FB-01")),
                                 Item("area", S("Reconstrucción de hechos")),
                                 Item("metodo", S("Análisis de consistencia del contexto")),
                                 Item("limites", S("Datos incompletos al provenir de un fallback")),
                                 Item("validez", S("Únicamente para práctica académica")) >>) >>)),
               Item("digital_fisica", Arr(<< Obj(<< Item("id", S("DIG-FB-01")),
                                 Item("tipo", S("digital")),
                                 Item("descripcion", S("Archivo simulado que resume el contexto aportado.")),
                                 Item("hash", Str(context_hash)),
                                 Item("metadatos", Obj(<< Item("generado_por", S("LexSim fallback")),
                                            Item("fiabilidad", S("moderada")) >>)),
                                 Item("cadena_custodia", S("Registro automático interno (uso educativo)")) >>) >>)) >>)
      guion ==
        Obj(<< Item("instrucciones_iniciales_juez", S("Se informa a los participantes que se utiliza material de respaldo debido a un error del modelo.")),
               Item("apertura", Obj(<< Item("parte_1", S("La fiscalía describe los hechos apoyándose en el contexto y los documentos de respaldo.")),
                          Item("parte_2", S("La defensa señala posibles fallas en la cadena causal y enfatiza la necesidad de mayor corroboración.")) >>)),
               Item("interrogatorios", Arr(<< Obj(<< Item("tipo", S("directo")),
                                 Item("a_quien", S("Testigo contextual")),
                                 Item("preguntas", Arr(<< S("Detalle qué observó según el contexto proporcionado"),
                                            S("Explique cómo reaccionaron los involucrados") >>)) >>),
                          Obj(<< Item("tipo", S("contrainterrogatorio")),
                                 Item("a_quien", S("Testigo contextual")),
                                 Item("preguntas", Arr(<< S("Confirme las limitaciones de su recuerdo"),
                                            S("Señale si recibió instrucciones previas al testimonio") >>)) >>) >>)),
               Item("objeciones_tipicas", Arr(<< Obj(<< Item("objecion", S("leading")),
                                 Item("fundamento", S("Se sugiere la respuesta al testigo durante el fallback")) >>),
                          Obj(<< Item("objecion", S("hearsay")),
                                 Item("fundamento", S("La declaración depende de información secundaria compilada en el fallback")) >>) >>)),
               Item("cierre", Obj(<< Item("parte_1", S("La fiscalía solicita valorar la coherencia del contexto y la simulación de pruebas.")),
                          Item("parte_2", S("La defensa pide absolver ante la ausencia de corroboración directa del modelo.")) >>)),
               Item("instrucciones_finales_juez", S("Los estudiantes deliberarán considerando las limitaciones de este material de respaldo.")) >>)
      decision ==
        Obj(<< Item("criterios", Arr(<< S("Coherencia interna del contexto"),
                          S("Consistencia de testimonios simulados"),
                          S("Respeto por garantías procesales en el ejercicio") >>)),
               Item("matriz_veredicto", Arr(<< Obj(<< Item("criterio", S("Análisis del contexto")),
                                 Item("peso", Float(4)),
                                 Item("observaciones", S("Evaluar qué elementos faltan por ausencia del modelo")) >>),
                          Obj(<< Item("criterio", S("Calidad de los interrogatorios")),
                                 Item("peso", Float(3)),
                                 Item("observaciones", S("Considerar si las preguntas cubren todos los hechos")) >>),
                          Obj(<< Item("criterio", S("Argumentación final")),
                                 Item("peso", Float(3)),
                                 Item("observaciones", S("Valorar la incorporación crítica del material de respaldo")) >>) >>)),
               Item("resultados_alternativos", Arr(<< Obj(<< Item("escenario", S("A")),
                                 Item("descripcion", S("Se dicta responsabilidad simbólica con base en el material de respaldo")) >>),
                          Obj(<< Item("escenario", S("B")),
                                 Item("descripcion", S("Se absuelve ante las limitaciones derivadas del uso del fallback")) >>) >>)) >>)
      banco_preguntas ==
        Arr(<< S("¿Cómo se adaptan los roles cuando se trabaja con un fallback?"),
               S("¿Qué riesgos probatorios emergen al no contar con evidencia completa?"),
               S("¿Qué estrategias de objeción son prioritarias en este escenario?") >>)
      rubrica ==
        Arr(<< Obj(<< Item("criterio", S("Dominio del caso de respaldo")),
                      Item("niveles", Obj(<< Item("excelente", S("Integra críticamente el fallback con referencias normativas.")),
                                 Item("bueno", S("Utiliza adecuadamente el fallback identificando riesgos.")),
                                 Item("basico", S("Depende casi exclusivamente del material entregado sin análisis crítico.")) >>)),
                      Item("puntaje_max", Num(10)) >>) >>)
      variantes ==
        Arr(<< S("Reformular el caso a materia administrativa usando el mismo fallback."),
               S("Solicitar a los estudiantes generar pruebas adicionales para reforzar la simulación.") >>)
      glosario ==
        Arr(<< Obj(<< Item("termino", S("Fallback pedagógico")),
                      Item("definicion", S("Material generado automáticamente para continuar la simulación cuando falla el modelo.")) >>),
               Obj(<< Item("termino", S("Cadena de custodia simulada")),
                      Item("definicion", S("Registro ficticio que preserva trazabilidad en ejercicios académicos.")) >>) >>)
  IN  Construct("SimulationJSON",
                << Item("meta", meta),
                   Item("personajes", personajes),
                   Item("cronologia", cronologia),
                   Item("planteamiento_juridico", planteamiento_juridico),
                   Item("pruebas", pruebas),
                   Item("guion", guion),
                   Item("decision", decision),
                   Item("banco_preguntas", banco_preguntas),
                   Item("rubrica", rubrica),
                   Item("variantes", variantes),
                   Item("glosario", glosario) >>)

(***************************************************************************)
(* The extractor on its own: one call of extract_simulation_payload on     *)
(* one answer.                                                             *)
(***************************************************************************)
NotExtracted ==
  [raised |-> "", markdown |-> <<>>, json |-> Null, warnings |-> <<>>,
   found |-> FALSE, json_block |-> <<>>, span |-> <<0, 0>>, unsupported |-> FALSE]

NotCompleted == [markdown |-> <<>>, json_data |-> Null, warnings |-> <<>>]

NoResponse == [status_code |-> 0, markdown |-> <<>>, json |-> Null, warnings |-> <<>>]

\* no function is called on its own
NoCall == [function |-> "", text |-> <<>>, start |-> 0, request |-> Null]

NotReturned == [raised |-> "", value |-> Null]

NoRequest == [contexto |-> Null, jurisdiccion |-> Null, materia |-> Null, nivel |-> Null,
              objetivo_didactico |-> Null, duracion_min |-> Null, restricciones |-> Null]

InitExtractor ==
  /\ raw_response \in Answers
  /\ request_payload = NoRequest
  /\ attempts = 0
  /\ pc = "extract"
  /\ extracted = NotExtracted
  /\ completed = NotCompleted
  /\ response = NoResponse
  /\ call = NoCall
  /\ returned = NotReturned
  /\ delays = <<>>
  /\ LimiterNotCalled

Extract ==
  /\ pc = "extract"
  /\ extracted' = extract_simulation_payload(raw_response)
  /\ pc' = "extracted"
  /\ UNCHANGED <<request_payload, attempts, raw_response, completed, response, call, returned, delays, limiter_vars>>

SpecExtractor == InitExtractor /\ [][Extract]_vars

\* every answer stays within the texts the library models cover
ModelCoversAnswers == ~extracted.unsupported

(***************************************************************************)
(* Properties of extract_simulation_payload, checked under SpecExtractor.  *)
(***************************************************************************)
\* C1: for every raw text extract_simulation_payload returns its triple and
\* never raises; a failure to locate, sanitize or validate the payload ends in
\* a warning and an absent record
C1_NeverRaises ==
  pc = "extracted" =>
    /\ extracted.raised = ""
    /\ extracted.json = Null => extracted.warnings # <<>>

\* the value has exactly the shape the schema type describes: every field of
\* every model, in declaration order, nothing else, each of the declared kind
RECURSIVE Conforms(_, _)
Conforms(type, v) ==
  CASE type[1] = "str" -> v.t = "str"
    [] type[1] = "int" -> v.t = "num"
    [] type[1] = "float" -> v.t = "float"
    [] type[1] = "literal" -> v.t = "str" /\ v.s \in { Chars(a) : a \in type[2] }
    [] type[1] = "list" ->
         v.t = "arr" /\ \A i \in 1..Len(v.a) : Conforms(type[2], v.a[i])
    [] type[1] = "dict" ->
         /\ v.t = "obj"
         /\ \A i \in 1..Len(v.o) : Conforms(type[2], v.o[i].k) /\ Conforms(type[3], v.o[i].v)
    [] OTHER ->
         /\ v.t = "obj"
         /\ Len(v.o) = Len(Fields(type[2]))
         /\ \A i \in 1..Len(v.o) :
              /\ v.o[i].k = S(Fields(type[2])[i][1])
              /\ Conforms(Fields(type[2])[i][2], v.o[i].v)

\* sanitizer stage k turns the candidate into a text that json.loads reads and
\* whose value validates as the record
StageYields(k, candidate, record) ==
  LET out == Transform(ExtractorTransformers[k], candidate)
  IN  /\ out.raised = ""
      /\ json_loads(strip(out.text)).ok
      /\ parse_obj("SimulationJSON", json_loads(strip(out.text)).val)
           = [error |-> "", val |-> record, unsupported |-> FALSE]

\* C3: a record that is returned is what strict parsing and full validation
\* made of the output of one sanitizer stage applied to the located candidate,
\* and it has every field of the schema
C3_RecordIsValidated ==
  (pc = "extracted" /\ extracted.json # Null) =>
    /\ extracted.raised = ""
    /\ extracted.found
    /\ \E k \in 1..Len(ExtractorTransformers) :
         StageYields(k, extracted.json_block, extracted.json)
    /\ Conforms(TModel("SimulationJSON"), extracted.json)

\* a record came out of a candidate that json.loads refuses as it stands
C3_RecordFromLaterStage ==
  /\ pc = "extracted"
  /\ extracted.json # Null
  /\ ~json_loads(extracted.json_block).ok

\* prose that is not empty around a fenced block of a valid payload
NonEmptyProses == Proses \ { <<"", "">> }

RoundTrips ==
  { [raw |-> InProse(prose, Fence("json", PayloadText(payload, "json"))),
     payload |-> payload,
     document |-> strip(Chars(prose[1]) \o Chars(prose[2]))] :
      prose \in NonEmptyProses, payload \in ValidPayloads }

\* C4: prose and a well-formed fenced block of a schema-valid payload come
\* back as the payload, the trimmed prose without the block, and no warnings
C4_RoundTrip ==
  \A c \in RoundTrips :
    (pc = "extracted" /\ raw_response = c.raw) =>
      /\ extracted.raised = ""
      /\ extracted.json = c.payload
      /\ extracted.markdown = c.document
      /\ extracted.warnings = <<>>

\* payloads whose strings hold no backticks, so that the fence closes where
\* the block ends
PlainFencePayloads ==
  { payload \in ValidPayloads :
      \A i \in 1..Len(payload.o[1].v.o[1].v.s) : payload.o[1].v.o[1].v.s[i] # Backtick }

TrailingCommaCases ==
  { [raw |-> InProse(prose, Fence("json", PayloadText(payload, "trailing"))),
     block |-> PayloadText(payload, "trailing"),
     payload |-> payload] :
      prose \in NonEmptyProses, payload \in PlainFencePayloads }

\* C6: a valid record with a comma before each closing bracket, inside prose,
\* is recovered as the record without those commas and without warnings;
\* the text as it stands does not parse
C6_TrailingCommasRecovered ==
  \A c \in TrailingCommaCases :
    (pc = "extracted" /\ raw_response = c.raw) =>
      /\ extracted.raised = ""
      /\ ~json_loads(c.block).ok
      /\ extracted.json = c.payload
      /\ extracted.warnings = <<>>

CommentCases ==
  { [raw |-> InProse(prose, Fence("json", PayloadText(payload, style))),
     payload |-> payload] :
      prose \in Proses, payload \in PlainFencePayloads,
      style \in {"line_comment", "block_comment"} }

\* C7: a valid record with // or /* */ comments outside its strings is
\* recovered as the record of the payload without the comments
C7_CommentsRecovered ==
  \A c \in CommentCases :
    (pc = "extracted" /\ raw_response = c.raw) =>
      extracted.raised = "" /\ extracted.json = c.payload

OnlyBlockCases ==
  { Fence("json", PayloadText(payload, "json")) : payload \in ValidPayloads }
    \cup { PayloadText(Payload(S("Caso"), S("basico"), Num(90)), "json") }

\* C8: a raw text that is only a block with a valid record gives an empty
\* document, the record, and the one warning that only the record is there
C8_OnlyBlock ==
  (pc = "extracted" /\ raw_response \in OnlyBlockCases) =>
    /\ extracted.raised = ""
    /\ extracted.markdown = <<>>
    /\ extracted.json # Null
    /\ extracted.warnings = <<WarnOnlyJson>>

\* no "{" of the text has a "}" after it
NoBraceSpan(t) ==
  \A i \in 1..Len(t) : t[i] = "{" => \A j \in (i + 1)..Len(t) : t[j] # "}"

\* C9, as stated: a raw text without any {...} span comes back unchanged as
\* the document, with no record and the one warning that no JSON was detected
C9_NoBraceSpanUnchanged ==
  (pc = "extracted" /\ NoBraceSpan(raw_response)) =>
    /\ extracted.raised = ""
    /\ extracted.markdown = raw_response
    /\ extracted.json = Null
    /\ extracted.warnings = <<WarnNoJson>>

\* the text between its first and its last character that is not whitespace
Trimmed(t) ==
  LET inked == { i \in 1..Len(t) : t[i] \notin Whitespace }
  IN  IF inked = {} THEN <<>>
      ELSE SubSeq(t, CHOOSE i \in inked : \A j \in inked : i <= j,
                     CHOOSE i \in inked : \A j \in inked : i >= j)

\* three backticks begin at position q
ClosingFenceAt(t, q) ==
  q + 2 <= Len(t) /\ \A d \in 0..2 : t[q + d] = Backtick

\* an opening fence tagged json, in any letter case, begins at position i
JsonFenceAt(t, i) ==
  /\ i + 6 <= Len(t)
  /\ ClosingFenceAt(t, i)
  /\ <<t[i + 3], t[i + 4], t[i + 5], t[i + 6]>>
       \in { <<j, s, o, n>> : j \in {"j", "J"}, s \in {"s", "S"},
                              o \in {"o", "O"}, n \in {"n", "N"} }

\* the positions where a fenced json block begins: the tag, and three
\* backticks somewhere after it
FencedBlocks(t) ==
  { i \in 1..Len(t) : JsonFenceAt(t, i) /\ \E q \in (i + 7)..Len(t) : ClosingFenceAt(t, q) }

\* C9, amended: a raw text without any {...} span and without a fenced json
\* block comes back trimmed as the document, with no record, and with the
\* warning that no JSON was detected, followed, when nothing is left of the
\* document, by the warning that neither artifact was produced
C9_NoBraceSpanTrimmed ==
  (pc = "extracted" /\ NoBraceSpan(raw_response) /\ FencedBlocks(raw_response) = {}) =>
    /\ extracted.raised = ""
    /\ extracted.markdown = Trimmed(raw_response)
    /\ extracted.json = Null
    /\ extracted.warnings = IF Trimmed(raw_response) = <<>>
                            THEN <<WarnNoJson, WarnNothing>> ELSE <<WarnNoJson>>

\* a text without braces whose ends are whitespace has been extracted
C9_TrimmedDocument ==
  /\ pc = "extracted"
  /\ raw_response = Chars(" hola \n")
  /\ extracted.markdown = Chars("hola")
  /\ extracted.warnings = <<WarnNoJson>>

FirstFencedBlock(t) == CHOOSE i \in FencedBlocks(t) : \A j \in FencedBlocks(t) : i <= j

FirstClosingFence(t, from) ==
  CHOOSE q \in from..Len(t) :
    ClosingFenceAt(t, q) /\ \A r \in from..(q - 1) : ~ClosingFenceAt(t, r)

\* C10: when the raw text has a fenced block tagged json in any letter case,
\* the candidate is the inner text of the first one and the span that whole
\* block, whether or not the inner text parses; only without such a block is
\* the candidate a brace-delimited part of the text that parses
C10_FencePreferred ==
  pc = "extracted" =>
    IF FencedBlocks(raw_response) # {}
    THEN LET i == FirstFencedBlock(raw_response)
             q == FirstClosingFence(raw_response, i + 7)
         IN  /\ extracted.found
             /\ extracted.json_block = Trimmed(SubSeq(raw_response, i + 7, q - 1))
             /\ extracted.span = <<i - 1, q + 2>>
    ELSE extracted.found =>
           /\ raw_response[extracted.span[1] + 1] = "{"
           /\ raw_response[extracted.span[2]] = "}"
           /\ extracted.json_block
                = SubSeq(raw_response, extracted.span[1] + 1, extracted.span[2])
           /\ json_loads(extracted.json_block).ok

\* a fenced block that holds no JSON was taken although an object that parses
\* stands before it
C10_FenceOverValidObject ==
  /\ pc = "extracted"
  /\ raw_response = Chars("a {\"k\": 1} b ") \o Fence("json", Chars("no es json"))
  /\ extracted.found
  /\ extracted.json_block = Chars("no es json")
  /\ extracted.json = Null

\* the positions of a "{" from which some part of the text, up to a "}",
\* strictly parses as JSON (that "}" is then the brace that matches it)
ParseableObjects(t) ==
  { i \in 1..Len(t) :
      t[i] = "{" /\ \E j \in (i + 1)..Len(t) : t[j] = "}" /\ json_loads(SubSeq(t, i, j)).ok }

ObjectEnd(t, i) ==
  CHOOSE j \in (i + 1)..Len(t) : t[j] = "}" /\ json_loads(SubSeq(t, i, j)).ok

\* C11: without a fenced json block the locator returns the first
\* brace-matched part of the text that strictly parses, with its span, whatever
\* stands before it, and no match only when no "{" begins such a part
C11_FirstParseableObject ==
  (pc = "extracted" /\ FencedBlocks(raw_response) = {}) =>
    IF ParseableObjects(raw_response) = {} THEN ~extracted.found
    ELSE LET i == CHOOSE k \in ParseableObjects(raw_response) :
                    \A m \in ParseableObjects(raw_response) : k <= m
         IN  /\ extracted.found
             /\ extracted.span = <<i - 1, ObjectEnd(raw_response, i)>>
             /\ extracted.json_block = SubSeq(raw_response, i, ObjectEnd(raw_response, i))

\* what stage k makes of the candidate: the candidate itself, the candidate
\* without comments and trailing commas, and the JSON dump of what that
\* second text evaluates to as a Python literal (the candidate itself when
\* it does not evaluate or cannot be dumped)
StageOutput(k, candidate) ==
  CASE k = 1 -> candidate
    [] k = 2 -> _sanitize_json(candidate)
    [] OTHER ->
         LET python_obj == ast_literal_eval(
                             _replace_unquoted_literals(_sanitize_json(candidate),
                                                        LiteralReplacements))
         IN  IF python_obj.error # "" \/ json_dumps(python_obj.val).error # ""
             THEN candidate
             ELSE json_dumps(python_obj.val).text

\* the record of stage k, when its output parses and validates
StageRecord(k, candidate) ==
  LET parsed == json_loads(strip(StageOutput(k, candidate)))
  IN  IF parsed.ok THEN parse_obj("SimulationJSON", parsed.val)
      ELSE [error |-> "JSONDecodeError", val |-> Null, unsupported |-> FALSE]

SucceedingStages(candidate) ==
  { k \in 1..3 : StageRecord(k, candidate).error = "" }

\* C15: the stages are tried in the order identity, comment and trailing-comma
\* repair, literal coercion, the first two on the original candidate and the
\* third on the output of the second; the record returned is that of the
\* earliest stage that parses and validates, and nothing runs after it
C15_EarliestStageWins ==
  (pc = "extracted" /\ extracted.found /\ extracted.json_block # <<>>) =>
    IF SucceedingStages(extracted.json_block) = {} THEN extracted.json = Null
    ELSE /\ extracted.raised = ""
         /\ extracted.json
              = StageRecord(CHOOSE k \in SucceedingStages(extracted.json_block) :
                              \A m \in SucceedingStages(extracted.json_block) : k <= m,
                            extracted.json_block).val

\* a record came out of the third stage, which needed the second one's output
C15_CoercedAfterRepair ==
  /\ pc = "extracted"
  /\ extracted.json_block = CommentedPythonText
  /\ SucceedingStages(extracted.json_block) = {3}
  /\ extracted.json = Payload(S("Caso"), S("basico"), Num(90))

\* C25: the document is the raw text without the located span, the text
\* before it followed by the text after it, trimmed of the whitespace at its
\* ends; with no span located it is the trimmed raw text
C25_DocumentIsResidual ==
  (pc = "extracted" /\ extracted.raised = "") =>
    extracted.markdown
      = Trimmed(IF extracted.found
                THEN [i \in 1..(Len(raw_response) - (extracted.span[2] - extracted.span[1])) |->
                        IF i <= extracted.span[1] THEN raw_response[i]
                        ELSE raw_response[i + (extracted.span[2] - extracted.span[1])]]
                ELSE raw_response)

\* a block was cut out of the middle of an answer, and whitespace was
\* trimmed from what was left
C25_BlockCutFromMiddle ==
  /\ pc = "extracted"
  /\ extracted.raised = ""
  /\ extracted.found
  /\ extracted.span[1] > 0
  /\ extracted.span[2] < Len(raw_response)
  /\ extracted.markdown # <<>>
  /\ Len(extracted.markdown) < Len(raw_response) - (extracted.span[2] - extracted.span[1])

\* where the warnings of a set stand in a list of warnings
WarningsAmong(warnings, set) == { i \in 1..Len(warnings) : warnings[i] \in set }

\* C26: a warning that the document is missing is among the warnings if and
\* only if the trimmed document is empty; then there is exactly one, the
\* last of the warnings: that neither artifact was produced when the record
\* is absent, that only the record is available when it is present
C26_EmptyDocumentWarned ==
  (pc = "extracted" /\ extracted.raised = "") =>
    IF extracted.markdown # <<>>
    THEN WarningsAmong(extracted.warnings, {WarnNothing, WarnOnlyJson}) = {}
    ELSE /\ WarningsAmong(extracted.warnings, {WarnNothing, WarnOnlyJson})
              = {Len(extracted.warnings)}
         /\ extracted.warnings[Len(extracted.warnings)]
              = IF extracted.json = Null THEN WarnNothing ELSE WarnOnlyJson

\* an answer that was only a block that did not validate: the warning for
\* the document stands after the warning for the block
C26_AfterJsonWarning ==
  /\ pc = "extracted"
  /\ extracted.found
  /\ extracted.markdown = <<>>
  /\ extracted.warnings = <<WarnNotValidated, WarnNothing>>

\* C27: the record is absent if and only if exactly one of the two JSON
\* warnings is among the warnings, and with a record neither is; the warning
\* that the block did not validate is there exactly when a candidate that is
\* not empty was found and all three stages failed on it
C27_AbsentRecordExplained ==
  (pc = "extracted" /\ extracted.raised = "") =>
    /\ (extracted.json = Null)
         <=> Cardinality(WarningsAmong(extracted.warnings, {WarnNoJson, WarnNotValidated})) = 1
    /\ extracted.json # Null
         => WarningsAmong(extracted.warnings, {WarnNoJson, WarnNotValidated}) = {}
    /\ (WarningsAmong(extracted.warnings, {WarnNotValidated}) # {})
         <=> /\ extracted.found
             /\ extracted.json_block # <<>>
             /\ SucceedingStages(extracted.json_block) = {}

\* a candidate was found in the prose, all three stages failed on it, and
\* the document came back with that one warning
C27_CandidateFailedAllStages ==
  /\ pc = "extracted"
  /\ extracted.raised = ""
  /\ extracted.found
  /\ extracted.json_block # <<>>
  /\ SucceedingStages(extracted.json_block) = {}
  /\ extracted.json = Null
  /\ extracted.markdown # <<>>
  /\ extracted.warnings = <<WarnNotValidated>>

\* C30: the warning that no JSON block was detected is emitted if and only
\* if no span was located: it is not emitted when a fenced json block is
\* found and cut out, also when its inner text is empty, and when it is
\* emitted the document is the whole raw text, trimmed
C30_NoJsonWarningIffNoSpan ==
  (pc = "extracted" /\ extracted.raised = "") =>
    /\ (WarningsAmong(extracted.warnings, {WarnNoJson}) # {}) <=> ~extracted.found
    /\ FencedBlocks(raw_response) # {}
         => WarningsAmong(extracted.warnings, {WarnNoJson}) = {}
    /\ WarningsAmong(extracted.warnings, {WarnNoJson}) # {}
         => extracted.markdown = Trimmed(raw_response)

(***************************************************************************)
(* The service: one request to /api/simulate that the rate limiter has     *)
(* admitted.  simulate_endpoint awaits call_openrouter, which asks the     *)
(* provider up to three times, and then turns the answer into a response.  *)
(***************************************************************************)
\* requests that pass SimulateRequest's validation (schemas.py lines 9-38)
Contexts == {"Linea 1\nLinea 2\nLinea 3", "a.\nb.\nc. d. e."}

Requests ==
  { [contexto |-> S(contexto), jurisdiccion |-> jurisdiccion, materia |-> S(materia),
     nivel |-> S("intermedio"),
     objetivo_didactico |-> S("practicar objeciones y contrainterrogatorio"),
     duracion_min |-> Num(90), restricciones |-> Null] :
      contexto \in Contexts, jurisdiccion \in {Null, S("Colombia")},
      materia \in {"penal", "otro"} }

\* what the provider may answer: markdown and a fenced record
\* (tests/test_simulate.py), the record alone, no record, a record that does
\* not validate, nothing at all, relaxed JSON, a dict with a list for a key
ProviderMarkdown == Chars("# Simulación LexSim\n\nContenido pedagógico ficticio.\n\n")

ProviderRecord == Payload(S("Caso de prueba LexSim"), S("intermedio"), Num(90))

ProviderAnswers ==
  LET invalid == Payload(S("Caso"), S("experto"), Num(90))
  IN  { ProviderMarkdown \o Fence("json", PayloadText(ProviderRecord, "json")),
        Fence("json", PayloadText(ProviderRecord, "json")),
        ProviderMarkdown \o Fence("json", PayloadText(ProviderRecord, "trailing")),
        ProviderMarkdown,
        ProviderMarkdown \o Fence("json", PayloadText(invalid, "json")),
        Fence("json", PayloadText(invalid, "json")),
        Chars("   "),
        ProviderMarkdown \o Fence("json", Chars("{[1]: 2}")) }

MaxAttempts == 3

Init ==
  /\ request_payload \in Requests
  /\ attempts = 0
  /\ raw_response = <<>>
  /\ pc = "call"
  /\ extracted = NotExtracted
  /\ completed = NotCompleted
  /\ response = NoResponse
  /\ call = NoCall
  /\ returned = NotReturned
  /\ delays = <<>>
  /\ LimiterNotCalled

\* router.py lines 95-100: any exception but an HTTPException becomes a 502
BadGateway == [status_code |-> 502, markdown |-> <<>>, json |-> Null, warnings |-> <<>>]

\* service_llm.py lines 120-132: the provider answers 200 with a completion
PostReturnsContent ==
  /\ pc = "call"
  /\ attempts < MaxAttempts
  /\ attempts' = attempts + 1
  /\ \E content \in ProviderAnswers : raw_response' = content
  /\ pc' = "extract"
  /\ UNCHANGED <<request_payload, extracted, completed, response, call, returned, delays, limiter_vars>>

\* service_llm.py lines 125-127 and 128: the provider answers 429.  Before
\* the third attempt the loop sleeps 2 * attempts seconds and goes on; at the
\* third attempt raise_for_status raises an httpx.HTTPStatusError, which is
\* handled as any other HTTPError, and RuntimeError is raised after the loop
PostAnswers429 ==
  /\ pc = "call"
  /\ attempts < MaxAttempts
  /\ attempts' = attempts + 1
  /\ delays' = Append(delays, IF attempts' < MaxAttempts THEN 4 * attempts' ELSE 3 * attempts')
  /\ IF attempts' < MaxAttempts
     THEN pc' = "call" /\ response' = response
     ELSE pc' = "failed" /\ response' = BadGateway
  /\ UNCHANGED <<request_payload, raw_response, extracted, completed, call, returned, limiter_vars>>

\* service_llm.py lines 128 and 132-137: the call fails with an
\* httpx.HTTPError (a timeout, a connection error, an error status other
\* than 429).  The loop sleeps 1.5 * attempts seconds and goes on; after the
\* third attempt RuntimeError is raised
PostRaisesHTTPError ==
  /\ pc = "call"
  /\ attempts < MaxAttempts
  /\ attempts' = attempts + 1
  /\ delays' = Append(delays, 3 * attempts')
  /\ IF attempts' < MaxAttempts
     THEN pc' = "call" /\ response' = response
     ELSE pc' = "failed" /\ response' = BadGateway
  /\ UNCHANGED <<request_payload, raw_response, extracted, completed, call, returned, limiter_vars>>

\* the provider answers 200 with a body that is not JSON or has no
\* choices[0].message.content: the error is no httpx.HTTPError and leaves
\* call_openrouter at once
PostReturnsMalformed ==
  /\ pc = "call"
  /\ attempts < MaxAttempts
  /\ attempts' = attempts + 1
  /\ pc' = "failed"
  /\ response' = BadGateway
  /\ UNCHANGED <<request_payload, raw_response, extracted, completed, call, returned, delays, limiter_vars>>

\* `part in message` on Python strings
Contains(message, part) ==
  \E i \in 1..(Len(message) - Len(part) + 1) : SubSeq(message, i, i + Len(part) - 1) = part

FallbackMarkdownMessage ==
  "Se generó contenido en Markdown de respaldo porque el modelo no lo proporcionó."

FallbackJsonMessage ==
  "Se generó un bloque JSON de respaldo porque el modelo no entregó uno válido."

\* schemas.py lines 192-197: SimulateResponse(**kwargs), kwargs a sequence of
\* <<keyword, value>>.  markdown and json have no default and must be given;
\* warnings defaults to []; a keyword that names no field is ignored
SimulateResponse(kwargs) ==
  LET given(name) == \E i \in 1..Len(kwargs) : kwargs[i][1] = name
      arg(name)   == kwargs[CHOOSE i \in 1..Len(kwargs) : kwargs[i][1] = name][2]
  IN  IF ~given("markdown") \/ ~given("json")
      THEN [error |-> "ValidationError", markdown |-> <<>>, json |-> Null, warnings |-> <<>>]
      ELSE [error |-> "", markdown |-> arg("markdown"), json |-> arg("json"),
            warnings |-> IF given("warnings") THEN arg("warnings") ELSE <<>>]

\* a handler that, once a fallback is used, keeps the fallback messages only
WithFallbackMessagesOnly(request, payload) ==
  LET no_markdown == strip(payload.markdown) = <<>>
      no_json == payload.json = Null
  IN  [raised |-> IF no_json THEN build_fallback_simulation_json(request).error ELSE "",
       markdown |-> IF no_markdown THEN build_fallback_markdown(request)
                    ELSE payload.markdown,
       json_data |-> IF no_json THEN build_fallback_simulation_json(request).val
                     ELSE payload.json,
       warnings |->
         IF ~no_markdown /\ ~no_json THEN payload.warnings
         ELSE (IF no_markdown THEN <<FallbackMarkdownMessage>> ELSE <<>>)
                \o (IF no_json THEN <<FallbackJsonMessage>> ELSE <<>>)]

\* router.py lines 64-88: what the handler holds before it builds the
\* response, given what extract_simulation_payload returned.  raised is the
\* exception of the record builder ("" when none)
WithFallbacks(request, payload) ==
  LET no_markdown == strip(payload.markdown) = <<>>
      no_json == payload.json = Null
      fallback_messages ==
        (IF no_markdown THEN <<FallbackMarkdownMessage>> ELSE <<>>)
          \o (IF no_json THEN <<FallbackJsonMessage>> ELSE <<>>)
  IN  [raised |-> IF no_json THEN build_fallback_simulation_json(request).error ELSE "",
       markdown |-> IF no_markdown THEN build_fallback_markdown(request)
                    ELSE payload.markdown,
       json_data |-> IF no_json THEN build_fallback_simulation_json(request).val
                     ELSE payload.json,
       warnings |->
         IF fallback_messages = <<>> THEN payload.warnings
         ELSE SelectSeq(payload.warnings,
                        LAMBDA message :
                          /\ ~Contains(message, "No se detectó un bloque JSON válido")
                          /\ ~Contains(message, "El modelo no devolvió contenido en Markdown"))
                \o fallback_messages]

\* router.py lines 90-100: the response object, or the 502 when building it fails
Respond(built) ==
  IF built.error # "" THEN BadGateway
  ELSE [status_code |-> 200, markdown |-> built.markdown, json |-> built.json,
        warnings |-> built.warnings]

\* router.py lines 90-92: the keyword arguments simulate_endpoint passes
Return(held) ==
  /\ completed' = [markdown |-> held.markdown, json_data |-> held.json_data,
                   warnings |-> held.warnings]
  /\ response' = Respond(SimulateResponse(<< <<"markdown", held.markdown>>,
                                             <<"simulation_json", held.json_data>>,
                                             <<"warnings", held.warnings>> >>))

Complete(held) ==
  IF held.raised # "" THEN completed' = completed /\ response' = BadGateway
  ELSE Return(held)

Serve(payload) ==
  /\ extracted' = payload
  /\ IF payload.raised # "" THEN completed' = completed /\ response' = BadGateway
     ELSE Complete(WithFallbacks(request_payload, payload))

\* router.py lines 62-100: the rest of simulate_endpoint, once
\* call_openrouter has returned
SimulateEndpoint ==
  /\ pc = "extract"
  /\ Serve(extract_simulation_payload(raw_response))
  /\ pc' = "responded"
  /\ UNCHANGED <<request_payload, attempts, raw_response, call, returned, delays, limiter_vars>>

Next ==
  \/ PostReturnsContent
  \/ PostAnswers429
  \/ PostRaisesHTTPError
  \/ PostReturnsMalformed
  \/ SimulateEndpoint

Spec == Init /\ [][Next]_vars

\* every answer of the provider stays within the texts the library models cover
ModelCoversProviderAnswers == ~extracted.unsupported

(***************************************************************************)
(* Properties of simulate_endpoint, checked under Spec.                    *)
(***************************************************************************)
\* C2: whatever the provider returned, the response to an admitted request is
\* complete: its markdown is not empty and its record is present; a document
\* the extractor found is returned as it is, and so is a record it found
C2_CompleteResponse ==
  pc = "responded" =>
    /\ response.status_code = 200
    /\ response.markdown # <<>>
    /\ response.json # Null
    /\ strip(extracted.markdown) # <<>> => response.markdown = extracted.markdown
    /\ extracted.json # Null => response.json = extracted.json

\* C5: markdown followed by a fenced block with a valid record is answered
\* with that markdown, that record (the title the model gave it included) in
\* the json field, and no warnings
C5_ProviderPayloadReturned ==
  (pc = "responded"
     /\ raw_response = ProviderMarkdown \o Fence("json", PayloadText(ProviderRecord, "json"))) =>
    /\ response.status_code = 200
    /\ response.markdown = strip(ProviderMarkdown)
    /\ response.json = ProviderRecord
    /\ response.warnings = <<>>

\* the members of a, in their order, are among those of b
IsSubsequence(a, b) ==
  \E f \in [1..Len(a) -> 1..Len(b)] :
    /\ \A i \in 1..Len(a) : b[f[i]] = a[i]
    /\ \A i, j \in 1..Len(a) : i < j => f[i] < f[j]

\* the handler went as far as building the response
Handled == pc = "responded" /\ completed # NotCompleted

\* C16, as stated: every warning recorded during extraction is still there,
\* in the same relative order, in the warning list the handler returns, also
\* when a fallback replaces the document or the record
C16_WarningsAppendOnly ==
  Handled => IsSubsequence(extracted.warnings, completed.warnings)

\* the two generic warnings that nothing was found, and the one that only the
\* record was found: what a fallback supersedes
GenericWarnings == {WarnNoJson, WarnNothing, WarnOnlyJson}

FallbackUsed == strip(extracted.markdown) = <<>> \/ extracted.json = Null

KeptWarnings == SelectSeq(extracted.warnings, LAMBDA w : w \notin GenericWarnings)

\* C16, amended: the warning list the handler builds begins with the
\* extraction warnings in their order, all of them when no fallback is used
\* and all but the generic ones when one is; nothing else is dropped
C16_WarningsKeptButGeneric ==
  Handled =>
    IF FallbackUsed
    THEN /\ Len(completed.warnings) > Len(KeptWarnings)
         /\ SubSeq(completed.warnings, 1, Len(KeptWarnings)) = KeptWarnings
    ELSE completed.warnings = extracted.warnings

\* a fallback was used: the warning that the block did not validate was
\* kept, the generic one that came with it was not
C16_GenericWarningDropped ==
  /\ Handled
  /\ extracted.warnings = <<WarnNotValidated, WarnNothing>>
  /\ completed.warnings = <<WarnNotValidated, FallbackMarkdownMessage, FallbackJsonMessage>>

\* what the warnings should be after the handler's fallbacks
ExpectedWarnings ==
  IF ~FallbackUsed THEN extracted.warnings
  ELSE KeptWarnings
         \o (IF strip(extracted.markdown) = <<>> THEN <<FallbackMarkdownMessage>> ELSE <<>>)
         \o (IF extracted.json = Null THEN <<FallbackJsonMessage>> ELSE <<>>)

C18_RecordOnlyResponse ==
  (pc = "responded" /\ raw_response = Fence("json", PayloadText(ProviderRecord, "json"))) =>
    /\ response.status_code = 200
    /\ response.markdown = <<>>
    /\ response.json = ProviderRecord
    /\ \E i \in 1..Len(response.warnings) : Contains(response.warnings[i], "Markdown")

\* C24: call_openrouter makes at most 3 attempts, sleeps after every failed
\* attempt before it tries again, longer each time, returns the content of
\* the first attempt that succeeds, and fails only after 3 failed attempts,
\* also when every answer is a 429
C24_BoundedRetries ==
  /\ attempts <= 3
  /\ \A i, j \in 1..Len(delays) : i < j => delays[i] < delays[j]
  /\ pc = "call" => Len(delays) = attempts
  /\ pc \in {"extract", "responded"} => Len(delays) = attempts - 1
  /\ pc = "failed" => attempts = 3 /\ Len(delays) = 3

(***************************************************************************)
(* The functions of the backend called on their own, each on one input.    *)
(***************************************************************************)
\* every text of a few characters that matter to the brace matcher
BraceAlphabet == {"{", "}", "\"", "\\", "a"}

MaxBraceTextLen == 5

BraceTexts == UNION { [1..n -> BraceAlphabet] : n \in 1..MaxBraceTextLen }

\* _find_matching_brace(text, start) with start at a "{"
BraceCalls ==
  { [function |-> "_find_matching_brace", text |-> t, start |-> i - 1, request |-> Null] :
      <<t, i>> \in { <<t, i>> \in BraceTexts \X (1..MaxBraceTextLen) :
                      i <= Len(t) /\ t[i] = "{" } }

\* every text of a few characters that matter to the sanitizer
SanitizerAlphabet == {",", "]", " ", "/", "*", "\"", "\n", "\\"}

MaxSanitizerTextLen == 4

SanitizerTexts == UNION { [1..n -> SanitizerAlphabet] : n \in 0..MaxSanitizerTextLen }

SanitizerCalls ==
  { [function |-> "_sanitize_json", text |-> t, start |-> 0, request |-> Null] :
      t \in SanitizerTexts }

\* what a string literal may hold that looks like JSON syntax, a comment or
\* a bare literal: the characters between the quotes, as written
LiteralBodies ==
  { "a", "a//b", "a/*b*/c", ",]", "a, }", "true", "es null", "false", "di \\\"si\\\"" }

\* well-formed texts around one string literal: an object, a list with a bare
\* literal and a trailing comma, and both with a comment
LiteralTexts ==
  { Chars(frame[1]) \o <<"\"">> \o Chars(body) \o <<"\"">> \o Chars(frame[2]) :
      frame \in { <<"{\"k\": ", "}">>, <<"[", ", true, null,]">>,
                  <<"{\"k\": ", " /* nota */}">>, <<"[", "] // nota">> },
      body \in LiteralBodies }

TransformCalls ==
  { [function |-> f, text |-> t, start |-> 0, request |-> Null] :
      f \in {"_strip_json_comments", "_sanitize_json", "_replace_unquoted_literals"},
      t \in LiteralTexts }

\* requests that pass SimulateRequest's validation: every materia and every
\* nivel of schemas.py lines 16-21, with a jurisdiction, with none and with
\* an empty one
Materias == {"penal", "civil", "laboral", "administrativo", "otro"}

Niveles == {"basico", "intermedio", "avanzado"}

\* the contexts of Requests, one that differs from the first in its blanks
\* only, and one that is longer than the 280 characters _normalize_context keeps
LongContext ==
  "Hecho 1: xxxxxxxxxxxxxxxxxxxxxxxxxxxxxxxxxxxxxxxxxxxxxxxxxxxxxxxxxxxxxxxxxxxxxxxxxxxxxxxxxxxxxxxxxxxxxxx.\nHecho 2: xxxxxxxxxxxxxxxxxxxxxxxxxxxxxxxxxxxxxxxxxxxxxxxxxxxxxxxxxxxxxxxxxxxxxxxxxxxxxxxxxxxxxxxxxxxxxxx.\nHecho 3: xxxxxxxxxxxxxxxxxxxxxxxxxxxxxxxxxxxxxxxxxxxxxxxxxxxxxxxxxxxxxxxxxxxxxxxxxxxxxxxxxxxxxxxxxxxxxxx."

FallbackContexts == Contexts \cup {"Linea 1\n  Linea 2\nLinea 3 ", LongContext}

FallbackRequests ==
  { [contexto |-> S(contexto), jurisdiccion |-> jurisdiccion, materia |-> S(materia),
     nivel |-> S(nivel),
     objetivo_didactico |-> S("practicar objeciones y contrainterrogatorio"),
     duracion_min |-> Num(90), restricciones |-> Null] :
      contexto \in FallbackContexts, jurisdiccion \in {Null, S(""), S("Colombia")},
      materia \in Materias, nivel \in Niveles }

BuilderCalls ==
  { [function |-> f, text |-> <<>>, start |-> 0, request |-> r] :
      f \in {"build_fallback_markdown", "build_fallback_simulation_json"},
      r \in FallbackRequests }

\* contexts of three lines, each a sentence, a short one, or one that begins
\* with or is made of dashes, and contexts of more lines than the five kept
PointLines == {"Hurto.", "Dos testigos declaran.", "- Hay un.", "--------", "Hay un video!"}

PointLineCount == 3

RECURSIVE LinesOf(_)
LinesOf(n) ==
  IF n = 1 THEN PointLines
  ELSE {before \o "\n" \o line : before \in LinesOf(n - 1), line \in PointLines}

PointContexts ==
  LinesOf(PointLineCount)
    \cup {"Hecho uno aqui.\nHecho dos aqui.\nHecho tres aqui.\nHecho cuatro.\nHecho cinco.\nHecho seis aqui.\nHecho siete.",
          "Era de noche. Llovia mucho?\nNo.\n- El auto\nfreno tarde! Hubo dos heridos.\nLlego la policia.\nFin del informe."}

PointCalls ==
  { [function |-> "_context_points", text |-> Chars(context), start |-> 0, request |-> Null] :
      context \in PointContexts }

Calls == BraceCalls \cup SanitizerCalls \cup TransformCalls \cup BuilderCalls \cup PointCalls

InitCalls ==
  /\ call \in Calls
  /\ returned = NotReturned
  /\ pc = "call"
  /\ request_payload = NoRequest
  /\ attempts = 0
  /\ raw_response = <<>>
  /\ extracted = NotExtracted
  /\ completed = NotCompleted
  /\ response = NoResponse
  /\ delays = <<>>
  /\ LimiterNotCalled

Returns(value) ==
  /\ pc = "call"
  /\ returned' = [raised |-> "", value |-> value]
  /\ pc' = "returned"
  /\ UNCHANGED <<request_payload, attempts, raw_response, extracted, completed, response, call, delays, limiter_vars>>

FindMatchingBrace ==
  /\ call.function = "_find_matching_brace"
  /\ Returns(_find_matching_brace(call.text, call.start))

SanitizeJson ==
  /\ call.function = "_sanitize_json"
  /\ Returns(_sanitize_json(call.text))

StripJsonComments ==
  /\ call.function = "_strip_json_comments"
  /\ Returns(_strip_json_comments(call.text))

\* with the replacements _coerce_python_literals asks for
ReplaceUnquotedLiterals ==
  /\ call.function = "_replace_unquoted_literals"
  /\ Returns(_replace_unquoted_literals(call.text, LiteralReplacements))

\* a builder is called, and called once more with the same request
ReturnsEachTime(result) ==
  /\ pc \in {"call", "returned"}
  /\ returned' = [raised |-> result.error, value |-> result.val]
  /\ pc' = IF pc = "call" THEN "returned" ELSE "repeated"
  /\ UNCHANGED <<request_payload, attempts, raw_response, extracted, completed, response, call, delays, limiter_vars>>

BuildFallbackMarkdown ==
  /\ call.function = "build_fallback_markdown"
  /\ ReturnsEachTime([error |-> "", val |-> build_fallback_markdown(call.request)])

BuildFallbackSimulationJson ==
  /\ call.function = "build_fallback_simulation_json"
  /\ ReturnsEachTime(build_fallback_simulation_json(call.request))

ContextPoints ==
  /\ call.function = "_context_points"
  /\ Returns(_context_points(call.text))

NextCalls ==
  \/ FindMatchingBrace
  \/ SanitizeJson
  \/ StripJsonComments
  \/ ReplaceUnquotedLiterals
  \/ BuildFallbackMarkdown
  \/ BuildFallbackSimulationJson
  \/ ContextPoints

SpecCalls == InitCalls /\ [][NextCalls]_vars

\* the backslashes that stand directly before position k, from `from` on
RECURSIVE BackslashRun(_, _, _)
BackslashRun(t, from, k) ==
  IF k > from /\ t[k - 1] = "\\" THEN 1 + BackslashRun(t, from, k - 1) ELSE 0

\* position k lies inside a double-quoted string literal that opened at or
\* after `from`; inside a literal a quote after an odd run of backslashes is
\* escaped and does not end it
RECURSIVE InLiteral(_, _, _)
InLiteral(t, from, k) ==
  IF k <= from THEN FALSE
  ELSE LET before == InLiteral(t, from, k - 1)
       IN  IF t[k - 1] = "\"" /\ (~before \/ BackslashRun(t, from, k - 1) % 2 = 0)
           THEN ~before ELSE before

\* the braces c outside string literals among the positions from..k
BracesOutside(t, from, k, c) == { j \in from..k : t[j] = c /\ ~InLiteral(t, from, j) }

\* the positions of a "}" outside string literals at which the depth is back at zero
ClosingBraces(t, from) ==
  { k \in from..Len(t) :
      /\ k \in BracesOutside(t, from, k, "}")
      /\ Cardinality(BracesOutside(t, from, k, "{"))
           = Cardinality(BracesOutside(t, from, k, "}")) }

\* C12, as stated: _find_matching_brace returns the index of the first "}" at
\* which the depth, counted outside double-quoted string literals only, is
\* back at zero, and no match when the text ends before that
C12_MatchOutsideLiterals ==
  (pc = "returned" /\ call.function = "_find_matching_brace") =>
    returned.value =
      IF ClosingBraces(call.text, call.start + 1) = {} THEN NoIndex
      ELSE (CHOOSE k \in ClosingBraces(call.text, call.start + 1) :
              \A m \in ClosingBraces(call.text, call.start + 1) : k <= m) - 1

\* the character at position k follows an odd run of backslashes, in a string
\* literal or not
AfterBackslash(t, from, k) == BackslashRun(t, from, k) % 2 = 1

\* position k lies inside quotes, a quote after a backslash not counting as one
RECURSIVE InQuotes(_, _, _)
InQuotes(t, from, k) ==
  IF k <= from THEN FALSE
  ELSE LET before == InQuotes(t, from, k - 1)
       IN  IF t[k - 1] = "\"" /\ ~AfterBackslash(t, from, k - 1) THEN ~before ELSE before

BracesCounted(t, from, k, c) ==
  { j \in from..k : t[j] = c /\ ~AfterBackslash(t, from, j) /\ ~InQuotes(t, from, j) }

ClosingBracesCounted(t, from) ==
  { k \in from..Len(t) :
      /\ k \in BracesCounted(t, from, k, "}")
      /\ Cardinality(BracesCounted(t, from, k, "{"))
           = Cardinality(BracesCounted(t, from, k, "}")) }

\* C12, amended: a backslash takes the character after it out of the count
\* wherever it stands, in a string literal or not; with that, the result is
\* the index of the first counted "}" at which the depth is back at zero
C12_MatchSkipsAfterBackslash ==
  (pc = "returned" /\ call.function = "_find_matching_brace") =>
    returned.value =
      IF ClosingBracesCounted(call.text, call.start + 1) = {} THEN NoIndex
      ELSE (CHOOSE k \in ClosingBracesCounted(call.text, call.start + 1) :
              \A m \in ClosingBracesCounted(call.text, call.start + 1) : k <= m) - 1

\* a brace inside a string literal was passed over, and so was one after a
\* backslash outside any literal
C12_BraceInLiteralPassedOver ==
  /\ pc = "returned"
  /\ call.function = "_find_matching_brace"
  /\ \/ call.text = <<"{", "\"", "}", "\"", "}">> /\ returned.value = 4
     \/ call.text = <<"{", "\\", "}", "}">> /\ returned.value = 3

\* C13: the stage-2 sanitizer applied to its own output changes nothing
C13_SanitizerIdempotent ==
  (pc = "returned" /\ call.function = "_sanitize_json") =>
    _sanitize_json(returned.value) = returned.value

\* the quotes that open a string literal, and those that close one
OpeningQuotes(t) == { k \in 1..Len(t) : t[k] = "\"" /\ ~InLiteral(t, 1, k) }

ClosingQuotes(t) ==
  { k \in 1..Len(t) : t[k] = "\"" /\ InLiteral(t, 1, k) /\ ~InLiteral(t, 1, k + 1) }

\* the i-th smallest member of a set of numbers
Nth(numbers, i) == CHOOSE k \in numbers : Cardinality({ m \in numbers : m < k }) = i - 1

\* what the correctly delimited string literals of the text hold, in order
LiteralContents(t) ==
  [i \in 1..Cardinality(ClosingQuotes(t)) |->
     SubSeq(t, Nth(OpeningQuotes(t), i) + 1, Nth(ClosingQuotes(t), i) - 1)]

\* C14: no sanitizer transform (comment stripping, trailing-comma removal,
\* bare-literal replacement) alters a character inside a correctly delimited
\* string literal: the literals of the output hold what those of the input hold
C14_LiteralsUntouched ==
  (pc = "returned" /\ call.text \in LiteralTexts
     /\ call.function
          \in {"_strip_json_comments", "_sanitize_json", "_replace_unquoted_literals"}) =>
    LiteralContents(returned.value) = LiteralContents(call.text)


FieldOf(record, name) ==
  record.o[CHOOSE i \in 1..Len(record.o) : record.o[i].k = S(name)].v

\* every field of the record that the schema closes is in its closed set
EnumsInClosedSets(record) ==
  /\ FieldOf(FieldOf(record, "meta"), "nivel") \in {S(n) : n \in Niveles}
  /\ \A i \in 1..Len(FieldOf(record, "personajes").a) :
        FieldOf(FieldOf(record, "personajes").a[i], "rol")
          \in {S(r) : r \in {"juez", "fiscal", "defensa", "demandante", "demandado",
                              "testigo", "perito", "policia", "otro"}}
  /\ FieldOf(FieldOf(record, "planteamiento_juridico"), "tipo") \in {S(m) : m \in Materias}
  /\ \A i \in 1..Len(FieldOf(FieldOf(record, "pruebas"), "digital_fisica").a) :
        FieldOf(FieldOf(FieldOf(record, "pruebas"), "digital_fisica").a[i], "tipo")
          \in {S("digital"), S("fisica")}
  /\ \A i \in 1..Len(FieldOf(FieldOf(record, "guion"), "interrogatorios").a) :
        FieldOf(FieldOf(FieldOf(record, "guion"), "interrogatorios").a[i], "tipo")
          \in {S("directo"), S("contrainterrogatorio")}

\* C20: for every valid request the fallback record passes the validator,
\* has every enumerated field in its closed set, and has the request's
\* materia as its case type
C20_FallbackRecordValid ==
  (pc \in {"returned", "repeated"} /\ call.function = "build_fallback_simulation_json") =>
    /\ returned.raised = ""
    /\ parse_obj("SimulationJSON", returned.value).error = ""
    /\ parse_obj("SimulationJSON", returned.value).val = returned.value
    /\ EnumsInClosedSets(returned.value)
    /\ FieldOf(FieldOf(returned.value, "planteamiento_juridico"), "tipo") = call.request.materia
    /\ FieldOf(FieldOf(returned.value, "meta"), "materia") = call.request.materia

\* a record was built for a request in a materia other than penal, at the
\* advanced level and with no jurisdiction
C20_LaboralAvanzado ==
  /\ pc = "returned"
  /\ call.function = "build_fallback_simulation_json"
  /\ call.request.materia = S("laboral")
  /\ call.request.nivel = S("avanzado")
  /\ call.request.jurisdiccion = Null
  /\ FieldOf(FieldOf(returned.value, "planteamiento_juridico"), "tipo") = S("laboral")
  /\ FieldOf(FieldOf(returned.value, "meta"), "jurisdiccion") = S("Jurisdicción genérica")

\* hashlib.sha256 of the normalised context of each request, first 16
\* hexadecimal digits, as Python computes it
DigestOfNormalized(contexto) ==
  CASE contexto = S("Linea 1\nLinea 2\nLinea 3") -> Chars("6a4a118b765e8bac")
    [] contexto = S("Linea 1\n  Linea 2\nLinea 3 ") -> Chars("6a4a118b765e8bac")
    [] contexto = S("a.\nb.\nc. d. e.") -> Chars("382623f0dcd76850")
    [] contexto = S(LongContext) -> Chars("85a95fedbdb15225")

HexDigits == {"0", "1", "2", "3", "4", "5", "6", "7", "8", "9", "a", "b", "c", "d", "e", "f"}

\* the hash of the only digital_fisica item of a record
EvidenceHash(record) ==
  FieldOf(FieldOf(FieldOf(record, "pruebas"), "digital_fisica").a[1], "hash").s

\* C21: the hash of the fallback record's digital evidence item is the first
\* 16 hexadecimal digits of the digest of the request's normalised context:
\* contexts with the same normalisation have the same hash, and the hash is
\* 16 digits, not the context
C21_HashOfNormalizedContext ==
  (pc \in {"returned", "repeated"} /\ call.function = "build_fallback_simulation_json") =>
    /\ EvidenceHash(returned.value) = DigestOfNormalized(call.request.contexto)
    /\ Len(EvidenceHash(returned.value)) = 16
    /\ \A i \in 1..16 : EvidenceHash(returned.value)[i] \in HexDigits

\* a record was built for the context that differs from "Linea 1 Linea 2
\* Linea 3" in line breaks and blanks, and has that text's digest
C21_SameHashForSameNormalization ==
  /\ pc = "returned"
  /\ call.function = "build_fallback_simulation_json"
  /\ call.request.contexto = S("Linea 1\n  Linea 2\nLinea 3 ")
  /\ EvidenceHash(returned.value) = Chars("6a4a118b765e8bac")

\* the members of a list field of a record
ListOf(record, name) == FieldOf(record, name).a

\* the sum of the weights of the verdict matrix, in tenths
RECURSIVE SumOfWeights(_)
SumOfWeights(rows) ==
  IF rows = <<>> THEN 0 ELSE FieldOf(Head(rows), "peso").n + SumOfWeights(Tail(rows))

\* C22: whatever the request, the fallback record has 4 participants, 3
\* timeline events at 0, 30 and 90 minutes from 2035-01-01 09:00 in ascending
\* order, one item in each of the four evidence categories, 2 examinations,
\* 2 objections, 3 verdict-matrix rows with weights that sum to 1.0, 2
\* alternative outcomes, 1 rubric and 2 glossary terms
C22_ArchetypeShape ==
  (pc \in {"returned", "repeated"} /\ call.function = "build_fallback_simulation_json") =>
    /\ Len(ListOf(returned.value, "personajes")) = 4
    /\ [i \in 1..Len(ListOf(returned.value, "cronologia")) |->
          FieldOf(ListOf(returned.value, "cronologia")[i], "t")]
         = << S("2035-01-01 09:00"), S("2035-01-01 09:30"), S("2035-01-01 10:30") >>
    /\ \A category \in {"documental", "testimonial", "pericial", "digital_fisica"} :
         Len(ListOf(FieldOf(returned.value, "pruebas"), category)) = 1
    /\ Len(ListOf(FieldOf(returned.value, "guion"), "interrogatorios")) = 2
    /\ Len(ListOf(FieldOf(returned.value, "guion"), "objeciones_tipicas")) = 2
    /\ Len(ListOf(FieldOf(returned.value, "decision"), "matriz_veredicto")) = 3
    /\ \A i \in 1..Len(ListOf(FieldOf(returned.value, "decision"), "matriz_veredicto")) :
         FieldOf(ListOf(FieldOf(returned.value, "decision"), "matriz_veredicto")[i], "peso").t = "float"
    /\ SumOfWeights(ListOf(FieldOf(returned.value, "decision"), "matriz_veredicto")) = 10
    /\ Len(ListOf(FieldOf(returned.value, "decision"), "resultados_alternativos")) = 2
    /\ Len(ListOf(returned.value, "rubrica")) = 1
    /\ Len(ListOf(returned.value, "glosario")) = 2

\* a record was built for the longest context, in another materia and at
\* the basic level, and its last event is ninety minutes after the first
C22_ShapeForLongContext ==
  /\ pc = "returned"
  /\ call.function = "build_fallback_simulation_json"
  /\ call.request.contexto = S(LongContext)
  /\ call.request.materia = S("administrativo")
  /\ call.request.nivel = S("basico")
  /\ FieldOf(ListOf(returned.value, "cronologia")[1], "t") = S("2035-01-01 09:00")
  /\ FieldOf(ListOf(returned.value, "cronologia")[3], "t") = S("2035-01-01 10:30")
  /\ Len(ListOf(returned.value, "personajes")) = 4

\* the sentence-like fragments of a context, each without the dashes and
\* blanks around it
TrimmedFragments(context) ==
  LET fragments == re_split_sentences(_normalize_context(context))
  IN  [i \in 1..Len(fragments) |-> strip_chars(fragments[i], {"-", " "})]

\* C23: the key facts of a context are at most 5, are taken in order from
\* its sentence-like fragments, and each is at least 8 characters long
C23_KeyFacts ==
  (pc = "returned" /\ call.function = "_context_points") =>
    /\ Len(returned.value) <= 5
    /\ IsSubsequence(returned.value, TrimmedFragments(call.text))
    /\ \A i \in 1..Len(returned.value) : Len(returned.value[i]) >= 8

(***************************************************************************)
(* router.py: rate_limiter, the dependency of /api/simulate.  Calls that   *)
(* follow one another, each run from its first line to its last; then      *)
(* calls that worker threads run at the same time on the one request log.  *)
(***************************************************************************)
\* settings.py line 38: the limit is a setting; a small one is checked
rate_limit_per_minute == 2

window_seconds == 60

\* the requests: from two hosts, and one without a client
LimiterRequests == {[client |-> "10.0.0.1"], [client |-> "10.0.0.2"], [client |-> ""]}

\* line 28: request.client.host if request.client else "unknown"
ClientHost(request) == IF request.client # "" THEN request.client ELSE "unknown"

\* how far the clock moves between two steps, and how far in all
ClockSteps == {30, 31}

MaxClock == 92

MaxCalls == 4

\* line 31: _REQUEST_LOG.setdefault(ip, deque())
setdefault(log, ip) ==
  IF ip \in DOMAIN log THEN log
  ELSE [i \in DOMAIN log \cup {ip} |-> IF i = ip THEN <<>> ELSE log[i]]

\* a bucket from which nothing is evicted
NeverEvicted(bucket, now) == bucket

\* lines 32-33: while bucket and now - bucket[0] > window_seconds: bucket.popleft()
RECURSIVE Evicted(_, _)
Evicted(bucket, now) ==
  IF bucket # <<>> /\ now - bucket[1] > window_seconds THEN Evicted(Tail(bucket), now)
  ELSE bucket

\* lines 35-42 on the bucket left by the eviction
Admit(log, ip, now, bucket) ==
  IF Len(bucket) >= rate_limit_per_minute
  THEN /\ request_log' = [log EXCEPT ![ip] = bucket]
       /\ limiter_log' = Append(limiter_log, [ip |-> ip, now |-> now, status_code |-> 429])
  ELSE /\ request_log' = [log EXCEPT ![ip] = Append(bucket, now)]
       /\ limiter_log' = Append(limiter_log, [ip |-> ip, now |-> now, status_code |-> 200])

\* one call of rate_limiter, lines 22-42
RateLimiter ==
  /\ Len(limiter_log) < MaxCalls
  /\ \E request \in LimiterRequests :
       Admit(setdefault(request_log, ClientHost(request)), ClientHost(request), clock,
             Evicted(setdefault(request_log, ClientHost(request))[ClientHost(request)], clock))
  /\ UNCHANGED <<clock, threads, service_vars>>

\* time passes
Tick ==
  /\ \E step \in ClockSteps : clock + step <= MaxClock /\ clock' = clock + step
  /\ UNCHANGED <<request_log, limiter_log, threads, service_vars>>

InitLimiter ==
  /\ LimiterNotCalled
  /\ pc = "limiter"
  /\ request_payload = NoRequest
  /\ attempts = 0
  /\ raw_response = <<>>
  /\ extracted = NotExtracted
  /\ completed = NotCompleted
  /\ response = NoResponse
  /\ call = NoCall
  /\ returned = NotReturned
  /\ delays = <<>>

NextLimiter ==
  \/ RateLimiter
  \/ Tick

SpecLimiter == InitLimiter /\ [][NextLimiter]_vars

\* the calls of an IP before the k-th call that were admitted and are within
\* the window at time now
AdmittedInWindow(ip, k, now) ==
  { i \in 1..(k - 1) : /\ limiter_log[i].ip = ip
                       /\ limiter_log[i].status_code = 200
                       /\ now - limiter_log[i].now <= window_seconds }

\* the times of the admitted calls of an IP, in their order
AdmittedTimes(ip) ==
  LET admitted == SelectSeq(limiter_log, LAMBDA c : c.ip = ip /\ c.status_code = 200)
  IN  [i \in 1..Len(admitted) |-> admitted[i].now]

IsSuffix(a, b) == Len(a) <= Len(b) /\ a = SubSeq(b, Len(b) - Len(a) + 1, Len(b))

\* C28: after any sequence of calls, for each IP the admitted requests of
\* the last 60 seconds are no more than rate_limit_per_minute; a call is
\* rejected with 429 exactly when that many admitted requests of its IP are
\* still in the window, and is then not recorded; the requests of another IP
\* change nothing of this
C28_SlidingWindow ==
  pc = "limiter" =>
    /\ \A ip \in DOMAIN request_log :
         /\ Cardinality(AdmittedInWindow(ip, Len(limiter_log) + 1, clock)) <= rate_limit_per_minute
         /\ IsSuffix(request_log[ip], AdmittedTimes(ip))
    /\ \A k \in 1..Len(limiter_log) :
         /\ limiter_log[k].status_code \in {200, 429}
         /\ limiter_log[k].status_code = 429
              <=> Cardinality(AdmittedInWindow(limiter_log[k].ip, k, limiter_log[k].now))
                    >= rate_limit_per_minute

\* a host was admitted twice, rejected while both requests were in the
\* window, and admitted again once the first had left it
C28_RejectedThenAdmitted ==
  /\ pc = "limiter"
  /\ \E a, b, c, d \in 1..Len(limiter_log) :
       /\ a < b /\ b < c /\ c < d
       /\ \A k \in {a, b, c, d} : limiter_log[k].ip = "10.0.0.1"
       /\ limiter_log[a].status_code = 200
       /\ limiter_log[b].status_code = 200
       /\ limiter_log[c].status_code = 429
       /\ limiter_log[d].status_code = 200
       /\ limiter_log[d].now - limiter_log[a].now > window_seconds
  /\ request_log["10.0.0.1"] = <<limiter_log[2].now, limiter_log[4].now>>

(***************************************************************************)
(* rate_limiter in the thread pool: each call is at a line of lines 22-42, *)
(* and the calls take their steps in any order.  The condition of the      *)
(* while of line 32 is two steps, the test of the bucket and the read of   *)
(* its first element.                                                      *)
(***************************************************************************)
\* the calls begun so far
CallsBegun == Len(limiter_log) + Cardinality({ th \in Threads : threads[th].pc # "idle" })

\* the call ends: what it did is logged and the thread is free again
Ends(th, status_code) ==
  /\ limiter_log' = Append(limiter_log, [ip |-> threads[th].ip, now |-> threads[th].now,
                                         status_code |-> status_code])
  /\ threads' = [threads EXCEPT ![th] = IdleThread]

\* lines 25-31: the settings, the IP, the time, and the bucket of the IP
Begin(th) ==
  /\ threads[th].pc = "idle"
  /\ CallsBegun < MaxCalls
  /\ \E request \in LimiterRequests :
       /\ threads' = [threads EXCEPT ![th] = [pc |-> "while", ip |-> ClientHost(request),
                                              now |-> clock]]
       /\ request_log' = setdefault(request_log, ClientHost(request))
  /\ UNCHANGED <<clock, limiter_log, service_vars>>

\* line 32: `while bucket`
WhileBucket(th) ==
  /\ threads[th].pc = "while"
  /\ threads' = [threads EXCEPT ![th].pc =
                   IF request_log[threads[th].ip] # <<>> THEN "first" ELSE "check"]
  /\ UNCHANGED <<request_log, clock, limiter_log, service_vars>>

\* line 32: `now - bucket[0] > window_seconds`; bucket[0] raises IndexError
\* when another call has emptied the bucket
WhileFirst(th) ==
  /\ threads[th].pc = "first"
  /\ IF request_log[threads[th].ip] = <<>>
     THEN Ends(th, 500)
     ELSE /\ threads' = [threads EXCEPT ![th].pc =
                           IF threads[th].now - request_log[threads[th].ip][1] > window_seconds
                           THEN "popleft" ELSE "check"]
          /\ limiter_log' = limiter_log
  /\ UNCHANGED <<request_log, clock, service_vars>>

\* line 33: bucket.popleft(), which raises IndexError on an empty bucket
Popleft(th) ==
  /\ threads[th].pc = "popleft"
  /\ IF request_log[threads[th].ip] = <<>>
     THEN Ends(th, 500) /\ request_log' = request_log
     ELSE /\ request_log' = [request_log EXCEPT ![threads[th].ip] = Tail(@)]
          /\ threads' = [threads EXCEPT ![th].pc = "while"]
          /\ limiter_log' = limiter_log
  /\ UNCHANGED <<clock, service_vars>>

\* lines 35-40: if len(bucket) >= limit: raise HTTPException(429)
CheckLimit(th) ==
  /\ threads[th].pc = "check"
  /\ IF Len(request_log[threads[th].ip]) >= rate_limit_per_minute
     THEN Ends(th, 429)
     ELSE threads' = [threads EXCEPT ![th].pc = "append"] /\ limiter_log' = limiter_log
  /\ UNCHANGED <<request_log, clock, service_vars>>

\* line 42: bucket.append(now)
AppendNow(th) ==
  /\ threads[th].pc = "append"
  /\ request_log' = [request_log EXCEPT ![threads[th].ip] = Append(@, threads[th].now)]
  /\ Ends(th, 200)
  /\ UNCHANGED <<clock, service_vars>>

NextThreads ==
  \/ \E th \in Threads : Begin(th)
  \/ \E th \in Threads : WhileBucket(th)
  \/ \E th \in Threads : WhileFirst(th)
  \/ \E th \in Threads : Popleft(th)
  \/ \E th \in Threads : CheckLimit(th)
  \/ \E th \in Threads : AppendNow(th)
  \/ Tick

SpecThreads == InitLimiter /\ [][NextThreads]_vars

\* C29: with calls of one IP running at the same time on the request log,
\* the admitted requests within any 60 seconds are still no more than
\* rate_limit_per_minute
C29_BoundUnderInterleaving ==
  pc = "limiter" =>
    \A k \in 1..Len(limiter_log) :
      limiter_log[k].status_code = 200 =>
        Cardinality({ i \in 1..Len(limiter_log) :
                        /\ limiter_log[i].ip = limiter_log[k].ip
                        /\ limiter_log[i].status_code = 200
                        /\ limiter_log[i].now >= limiter_log[k].now
                        /\ limiter_log[i].now - limiter_log[k].now <= window_seconds })
          <= rate_limit_per_minute

====
